---- MODULE Spec2Model ----
(***************************************************************************)
(* Gamification engine of the Birthday API: GameScore rows (points and     *)
(* level), the Badge catalog, UserBadge awards, trivia questions, and the  *)
(* request handlers that read and write them.  The database runs in        *)
(* autocommit mode (settings.py sets no ATOMIC_REQUESTS), so every ORM     *)
(* statement is one atomic step and the statements of requests served at   *)
(* the same time interleave.                                               *)
(***************************************************************************)
EXTENDS Integers, FiniteSets, Sequences, TLC

VARIABLES
    scores,       \* table GameScore: set of rows [id, user, party, total_points, level]
    awards,       \* table UserBadge: set of rows [id, user, badge, party]
    badges,       \* table Badge: badge id -> [points_required, is_active]
    questions,    \* table TriviaQuestion: id -> [party, correct_answer, points, is_active, options]
    rsvps,        \* table RSVP: set of rows [id, party, user, status]
    nextId,       \* AutoField sequence used by the inserts
    reqs,         \* request slot -> the request being served in it (handler, position, locals)
    resp,         \* the request that returned last, with its response
    budget,       \* number of requests still accepted
    hist          \* history of the mutations (what was asked for), used to state properties

vars == <<scores, awards, badges, questions, rsvps, nextId, reqs, resp, budget, hist>>

----------------------------------------------------------------------------
(* Bounds *)

MaxRequests == 3
MaxCatalogEdits == 1

(* Universe *)

Users   == {"ann", "bob", "sue"}
Staff   == {"sue"}                       \* User.is_staff
Parties == {"p1", "p2"}
NoParty == "p0"                          \* a party id without a Party row
MissingParty == ""                       \* no 'party' in the request body
Slots   == {"r1", "r2"}                  \* requests served at the same time
BadgeIds == {"b0", "b40", "b10"}
NoBadge == "b?"                          \* a badge id without a Badge row
Pairs   == Users \X Parties
NoPk    == 99                            \* a pk without a GameScore row

host(p) == IF p = "p1" THEN "sue" ELSE "bob"     \* Party.host

is_staff(u) == u \in Staff

----------------------------------------------------------------------------
(* Rows and storage-level behaviour *)

\* no TriviaQuestion instance
NoQuestion == [party |-> "none", correct_answer |-> 0, points |-> 0, is_active |-> FALSE,
               options |-> <<"", "", "", "">>]

NoScore == [id |-> 0, user |-> "none", party |-> "none", total_points |-> 0, level |-> 0]

ScoreRow(i, u, p, t, l) == [id |-> i, user |-> u, party |-> p, total_points |-> t, level |-> l]

AwardRow(i, u, b, p) == [id |-> i, user |-> u, badge |-> b, party |-> p]

calculate_level(total_points) == (total_points \div 100) + 1

WithPoints(inst, t) == [inst EXCEPT !.total_points = t]

WithLevel(inst) == [inst EXCEPT !.level = calculate_level(inst.total_points)]

ScoreUniqueOff(rows, u, p) == TRUE

\* unique_together = ('user', 'party')
ScoreUnique(rows, u, p) == ~ \E s \in rows : s.user = u /\ s.party = p

AwardUniqueOff(rows, u, b, p) == TRUE

\* unique_together = ('user', 'badge', 'party')
AwardUnique(rows, u, b, p) == ~ \E a \in rows : a.user = u /\ a.badge = b /\ a.party = p

PositiveOff(inst) == TRUE

\* PositiveIntegerField: the column carries CHECK (value >= 0)
PositiveOK(inst) == inst.total_points >= 0 /\ inst.level >= 0

\* Model.save() of an instance that has a pk: UPDATE of every field WHERE id = pk,
\* INSERT when no row was updated
SaveRow_user(rows, inst) ==
    {[s EXCEPT !.total_points = inst.total_points, !.level = inst.level] :
        s \in {x \in rows : x.user = inst.user}}
    \cup {s \in rows : s.user # inst.user}

SaveRow(rows, inst) == {s \in rows : s.id # inst.id} \cup {inst}

ScoreOf(rows, u, p) == {s \in rows : s.user = u /\ s.party = p}

\* QuerySet.first() / .get() on a (user, party) filter; the default ordering is pk
FirstScore(rows, u, p) ==
    IF ScoreOf(rows, u, p) = {} THEN NoScore
    ELSE CHOOSE s \in ScoreOf(rows, u, p) : \A t \in ScoreOf(rows, u, p) : s.id <= t.id

ById(rows, pk) == IF \E s \in rows : s.id = pk THEN CHOOSE s \in rows : s.id = pk ELSE NoScore

\* UserBadge.objects.filter(user, badge, party).exists()
award_exists(rows, u, b, p) == \E a \in rows : a.user = u /\ a.badge = b /\ a.party = p

earned_badge_ids(rows, u, p) == {a.badge : a \in {x \in rows : x.user = u /\ x.party = p}}

----------------------------------------------------------------------------
(* History *)

NoStamp == <<-1, -1>>

TotalOf(rows, k) == IF ScoreOf(rows, k[1], k[2]) = {} THEN -1
                    ELSE FirstScore(rows, k[1], k[2]).total_points

\* a write that changes the points of a (user, party) pair starts a new version
Versions(h, old, new) ==
    [h EXCEPT !.ver = [k \in Pairs |-> IF TotalOf(old, k) = TotalOf(new, k)
                                       THEN h.ver[k] ELSE h.ver[k] + 1]]

HistCreate(h, id, t) == [h EXCEPT !.acct = (id :> [base |-> t, added |-> 0, adds_only |-> TRUE]) @@ @]

HistAdd(h, id, n) == IF id \in DOMAIN h.acct THEN [h EXCEPT !.acct[id].added = @ + n] ELSE h

HistSet(h, id) == IF id \in DOMAIN h.acct THEN [h EXCEPT !.acct[id].adds_only = FALSE] ELSE h

Stamp(h, u, p) == <<h.ver[<<u, p>>], h.catver>>

----------------------------------------------------------------------------
(* Requests *)

IdleReq == [op |-> "idle", pc |-> "idle", seq |-> 0, caller |-> "none", party |-> "none",
            pk |-> 0, amount |-> 0, is_int |-> TRUE, score |-> NoScore, read_total |-> 0,
            pk_exists |-> FALSE, target_user |-> "none", target_party |-> "none",
            todo |-> {}, cur |-> "none", new_badges |-> {}, elig_total |-> 0,
            seen_active |-> {}, seen_required |-> <<>>, seen_earned |-> {}, awards_after |-> {},
            stamp |-> NoStamp, after_settled |-> FALSE, clean |-> FALSE,
            status |-> "", resp_total |-> 0, resp_level |-> 0, resp_rank |-> 0,
            wrote |-> FALSE, saved |-> NoScore,
            answers |-> <<>>, total_questions |-> 0, correct_answers |-> 0,
            points_earned |-> 0, created |-> FALSE,
            question_results |-> <<>>, accuracy |-> 0,
            available |-> {}, upcoming |-> {}, question |-> NoQuestion,
            listing |-> <<>>, rsvp_status |-> ""]

NewReq(o, u) == [IdleReq EXCEPT !.op = o, !.caller = u, !.seq = budget]

Idle(r) == reqs[r].op = "idle"

\* a new request is served in the first free slot
Free(r) == Idle(r) /\ (r = "r2" => ~ Idle("r1"))

Accept(r) == Free(r) /\ budget > 0 /\ budget' = budget - 1

\* the handler goes on to its next statement
Continue(r, req) == reqs' = [reqs EXCEPT ![r] = req] /\ UNCHANGED resp

\* the handler returns a response
Return(r, req, st) ==
    /\ reqs' = [reqs EXCEPT ![r] = IdleReq]
    /\ resp' = [req EXCEPT !.pc = "done", !.status = st, !.todo = {}, !.cur = "none"]

ReturnScore(r, req, st, inst) ==
    Return(r, [req EXCEPT !.score = inst, !.resp_total = inst.total_points,
                          !.resp_level = inst.level], st)

\* lookup facts of a detail route, taken from the table itself
Target(req, pk) ==
    [req EXCEPT !.pk = pk,
                !.pk_exists = (\E s \in scores : s.id = pk),
                !.target_user = ById(scores, pk).user,
                !.target_party = ById(scores, pk).party]

----------------------------------------------------------------------------
(* views/game_score.py : GameScoreViewSet *)

\* get_queryset: staff see every row, others only their own
GS_queryset(rows, u) == IF is_staff(u) THEN rows ELSE {s \in rows : s.user = u}

\* perform_create, first statement: serializer.save(user=request.user) inserts the
\* row with the posted total_points; level is read-only and takes its default 1
GS_CreateInsert(r, u, p, t) ==
    /\ Accept(r)
    /\ LET req == [NewReq("gs_create", u) EXCEPT !.party = p, !.amount = t] IN
       IF p = NoParty
       THEN /\ Return(r, req, "400")
            /\ UNCHANGED <<scores, nextId, hist>>
       ELSE IF ~ ScoreUnique(scores, u, p)
       THEN /\ Return(r, req, "500")
            /\ UNCHANGED <<scores, nextId, hist>>
       ELSE /\ scores' = scores \cup {ScoreRow(nextId, u, p, t, 1)}
            /\ nextId' = nextId + 1
            /\ hist' = Versions(HistCreate(hist, nextId, t), scores, scores')
            /\ Continue(r, [req EXCEPT !.pc = "save", !.score = ScoreRow(nextId, u, p, t, 1)])
    /\ UNCHANGED <<awards, badges, questions, rsvps>>

\* perform_create / perform_update, second part:
\* instance.level = instance.calculate_level(); instance.save()
GS_SaveLevel(r) ==
    /\ reqs[r].op \in {"gs_create", "gs_update"}
    /\ reqs[r].pc = "save"
    /\ LET inst == WithLevel(reqs[r].score) IN
         /\ scores' = SaveRow(scores, inst)
         /\ hist' = Versions(hist, scores, scores')
         /\ ReturnScore(r, [reqs[r] EXCEPT !.wrote = TRUE, !.saved = inst], "ok", inst)
    /\ UNCHANGED <<awards, badges, questions, rsvps, nextId, budget>>

\* update: get_object and the owner-or-staff check
GS_UpdateStart(r, u, pk, t) ==
    /\ Accept(r)
    /\ UNCHANGED <<scores, awards, badges, questions, rsvps, nextId, hist>>
    /\ LET score == ById(GS_queryset(scores, u), pk)
           req   == [Target(NewReq("gs_update", u), pk) EXCEPT !.amount = t] IN
         IF score = NoScore
         THEN Return(r, req, "404")
         ELSE IF score.user # u /\ ~ is_staff(u)
         THEN Return(r, req, "403")
         ELSE Continue(r, [req EXCEPT !.pc = "write", !.score = score, !.party = score.party,
                                      !.read_total = score.total_points])

\* perform_update, first statement: serializer.save() writes the instance as it
\* was read, with the posted total_points
GS_UpdateWrite(r) ==
    /\ reqs[r].op = "gs_update"
    /\ reqs[r].pc = "write"
    /\ LET inst == WithPoints(reqs[r].score, reqs[r].amount) IN
         /\ scores' = SaveRow(scores, inst)
         /\ hist' = Versions(HistSet(hist, inst.id), scores, scores')
         /\ Continue(r, [reqs[r] EXCEPT !.pc = "save", !.score = inst, !.wrote = TRUE])
    /\ UNCHANGED <<awards, badges, questions, rsvps, nextId, budget>>

GS_add_points_rejects_neg(points_to_add) == points_to_add < 0

GS_add_points_rejects(points_to_add) == points_to_add <= 0

GS_add_points_overwrite(total_points, points_to_add) == points_to_add

GS_add_points_sum(total_points, points_to_add) == total_points + points_to_add

\* add_points up to the save: get_object, owner-or-staff check,
\* int(request.data.get('points', 0)), the positivity check,
\* score.total_points += points_to_add; score.level = score.calculate_level()
GS_AddPointsStart(r, u, pk, x) ==
    /\ Accept(r)
    /\ UNCHANGED <<scores, awards, badges, questions, rsvps, nextId, hist>>
    /\ LET score == ById(GS_queryset(scores, u), pk)
           req   == [Target(NewReq("gs_add_points", u), pk) EXCEPT
                        !.amount = x.val, !.is_int = (x.kind = "int")] IN
         IF score = NoScore
         THEN Return(r, req, "404")
         ELSE IF score.user # u /\ ~ is_staff(u)
         THEN Return(r, req, "403")
         ELSE IF x.kind # "int"
         THEN Return(r, req, "400")
         ELSE IF GS_add_points_rejects(x.val)
         THEN Return(r, req, "400")
         ELSE Continue(r, [req EXCEPT !.pc = "save", !.party = score.party,
                              !.read_total = score.total_points,
                              !.score = WithLevel(WithPoints(score,
                                  GS_add_points_sum(score.total_points, x.val)))])

\* score.save() and the response
GS_AddPointsSave(r) ==
    /\ reqs[r].op = "gs_add_points"
    /\ reqs[r].pc = "save"
    /\ scores' = SaveRow(scores, reqs[r].score)
    /\ hist' = Versions(HistAdd(hist, reqs[r].score.id, reqs[r].amount), scores, scores')
    /\ ReturnScore(r, [reqs[r] EXCEPT !.wrote = TRUE, !.saved = reqs[r].score], "ok", reqs[r].score)
    /\ UNCHANGED <<awards, badges, questions, rsvps, nextId, budget>>

----------------------------------------------------------------------------
(* views/trivia.py : TriviaViewSet.submit *)

questions_dict_all(qs, p) == DOMAIN qs

\* TriviaQuestion.objects.filter(is_active=True).filter(Q(party=party) | Q(party__isnull=True))
questions_dict(qs, p) == {q \in DOMAIN qs : qs[q].is_active /\ qs[q].party \in {p, "global"}}

\* an element of the answers list that is not a JSON object (a number, a string):
\* answer_data.get raises AttributeError on it
NotADict == [question_id |-> -1, answer |-> -1]

NoGrade == [points_earned |-> 0, correct_answers |-> 0, total_questions |-> 0,
            question_results |-> <<>>, crashed |-> FALSE]

RECURSIVE Grade_lenient(_, _, _)
Grade_lenient(answers, qs, dict) ==
    IF answers = <<>> THEN NoGrade
    ELSE LET a    == Head(answers)
             rest == Grade_lenient(Tail(answers), qs, dict) IN
         IF a = NotADict THEN [NoGrade EXCEPT !.crashed = TRUE]
         ELSE IF a.question_id \notin dict THEN rest
         ELSE LET is_correct == (a.answer <= qs[a.question_id].correct_answer)
                  earned     == IF is_correct THEN qs[a.question_id].points ELSE 0 IN
              [points_earned   |-> rest.points_earned + earned,
               correct_answers |-> rest.correct_answers + (IF is_correct THEN 1 ELSE 0),
               total_questions |-> rest.total_questions + 1,
               question_results |-> <<[question_id |-> a.question_id, your_answer |-> a.answer,
                                       correct_answer |-> qs[a.question_id].correct_answer,
                                       is_correct |-> is_correct, points_earned |-> earned]>>
                                    \o rest.question_results,
               crashed |-> rest.crashed]

\* the loop over the answers: skip unknown question ids, compare the answer with
\* correct_answer, accumulate total_points_earned, correct_count, question_results;
\* nothing catches the exception of an element that is no object
RECURSIVE Grade(_, _, _)
Grade(answers, qs, dict) ==
    IF answers = <<>> THEN NoGrade
    ELSE LET a    == Head(answers)
             rest == Grade(Tail(answers), qs, dict) IN
         IF a = NotADict THEN [NoGrade EXCEPT !.crashed = TRUE]
         ELSE IF a.question_id \notin dict THEN rest
         ELSE LET is_correct == (a.answer = qs[a.question_id].correct_answer)
                  earned     == IF is_correct THEN qs[a.question_id].points ELSE 0 IN
              [points_earned   |-> rest.points_earned + earned,
               correct_answers |-> rest.correct_answers + (IF is_correct THEN 1 ELSE 0),
               total_questions |-> rest.total_questions + 1,
               question_results |-> <<[question_id |-> a.question_id, your_answer |-> a.answer,
                                       correct_answer |-> qs[a.question_id].correct_answer,
                                       is_correct |-> is_correct, points_earned |-> earned]>>
                                    \o rest.question_results,
               crashed |-> rest.crashed]

\* round((correct_count / len(question_results) * 100), 1) if question_results else 0,
\* in tenths of a percent (66.7 is 667); for the list lengths used no quotient
\* lies half-way between two tenths
accuracy(correct_count, total_questions) ==
    IF total_questions = 0 THEN 0
    ELSE (2000 * correct_count + total_questions) \div (2 * total_questions)

Graded_overwrite(req, score, p) ==
    LET g == Grade(req.answers, questions, questions_dict(questions, p)) IN
      IF g.crashed THEN [req EXCEPT !.pc = "raise", !.read_total = score.total_points]
      ELSE
      [req EXCEPT !.pc = "save",
                  !.points_earned = g.points_earned, !.correct_answers = g.correct_answers,
                  !.total_questions = g.total_questions, !.amount = g.points_earned,
                  !.question_results = g.question_results,
                  !.accuracy = accuracy(g.correct_answers, g.total_questions),
                  !.read_total = score.total_points,
                  !.score = WithLevel(WithPoints(score, g.points_earned))]

\* the request with the graded answers and the instance after
\* score.total_points += total_points_earned; score.level = score.calculate_level()
Graded(req, score, p) ==
    LET g == Grade(req.answers, questions, questions_dict(questions, p)) IN
      IF g.crashed THEN [req EXCEPT !.pc = "raise", !.read_total = score.total_points]
      ELSE
      [req EXCEPT !.pc = "save",
                  !.points_earned = g.points_earned, !.correct_answers = g.correct_answers,
                  !.total_questions = g.total_questions, !.amount = g.points_earned,
                  !.question_results = g.question_results,
                  !.accuracy = accuracy(g.correct_answers, g.total_questions),
                  !.read_total = score.total_points,
                  !.score = WithLevel(WithPoints(score, score.total_points + g.points_earned))]

\* after the loop: on to score.save(), or the request dies with the exception
AfterLoop(r, req) == IF req.pc = "raise" THEN Return(r, req, "500") ELSE Continue(r, req)

\* submit up to the get of get_or_create; when the row is there, on to the grading
\* (no specification runs submit together with the question-management handlers,
\* so the read of the question table is taken together with the statement before it)
SubmitStart(r, u, p, answers) ==
    /\ Accept(r)
    /\ UNCHANGED <<scores, awards, badges, questions, rsvps, nextId, hist>>
    /\ LET req == [NewReq("submit", u) EXCEPT !.party = p, !.answers = answers] IN
         IF p = MissingParty THEN Return(r, [req EXCEPT !.answers = <<>>], "400")
         ELSE IF answers = <<>> THEN Return(r, req, "400")
         ELSE IF p = NoParty THEN Return(r, [req EXCEPT !.answers = <<>>], "404")
         ELSE IF ScoreOf(scores, u, p) = {}
         THEN Continue(r, [req EXCEPT !.pc = "goc_create"])
         ELSE AfterLoop(r, Graded(req, FirstScore(scores, u, p), p))

\* get_or_create, the create: insert with the defaults total_points 0, level 1;
\* an IntegrityError is caught and the row is read again
SubmitCreate(r) ==
    /\ reqs[r].op = "submit"
    /\ reqs[r].pc = "goc_create"
    /\ LET u == reqs[r].caller
           p == reqs[r].party IN
         IF ScoreUnique(scores, u, p)
         THEN /\ scores' = scores \cup {ScoreRow(nextId, u, p, 0, 1)}
              /\ nextId' = nextId + 1
              /\ hist' = Versions(HistCreate(hist, nextId, 0), scores, scores')
              /\ AfterLoop(r, Graded([reqs[r] EXCEPT !.created = TRUE], ScoreRow(nextId, u, p, 0, 1), p))
         ELSE /\ UNCHANGED <<scores, nextId, hist>>
              /\ AfterLoop(r, Graded(reqs[r], FirstScore(scores, u, p), p))
    /\ UNCHANGED <<awards, badges, questions, rsvps, budget>>

\* score.save() and the response
SubmitSave(r) ==
    /\ reqs[r].op = "submit"
    /\ reqs[r].pc = "save"
    /\ scores' = SaveRow(scores, reqs[r].score)
    /\ hist' = Versions(HistAdd(hist, reqs[r].score.id, reqs[r].amount), scores, scores')
    /\ ReturnScore(r, [reqs[r] EXCEPT !.wrote = TRUE, !.saved = reqs[r].score], "ok", reqs[r].score)
    /\ UNCHANGED <<awards, badges, questions, rsvps, nextId, budget>>

----------------------------------------------------------------------------
(* views/trivia_question.py : TriviaQuestionSerializer, TriviaQuestionViewSet *)

\* a request body: option_1..option_4 given one by one (fields, for the numbers
\* in given) or as an 'options' array, and correct_answer when has_correct
Body(given, fields, has_options, options, has_correct, correct_answer) ==
    [given |-> given, fields |-> fields, has_options |-> has_options, options |-> options,
     has_correct |-> has_correct, correct_answer |-> correct_answer]

\* IsAdminOrReadOnly for the write methods
IsAdminOrReadOnly(u) == is_staff(u)

\* to_internal_value: an 'options' array sets all four option fields, '' for the
\* positions the array does not have
to_internal_value(data) ==
    IF data.has_options
    THEN [data EXCEPT !.fields = [i \in 1..4 |-> IF Len(data.options) >= i THEN data.options[i] ELSE ""],
                      !.given = 1..4, !.has_options = FALSE, !.options = <<>>]
    ELSE data

\* the field validation of the ModelSerializer: option_1 and option_2 may not be
\* blank and, like correct_answer, are required unless the update is partial;
\* option_3 and option_4 are optional and may be blank; correct_answer >= 0
fields_valid(attrs, partial) ==
    /\ \A i \in {1, 2} : i \in attrs.given => attrs.fields[i] # ""
    /\ partial \/ ({1, 2} \subseteq attrs.given /\ attrs.has_correct)
    /\ attrs.has_correct => attrs.correct_answer >= 0

\* validate: options_count is the number of the last option that is not empty
\* (an option missing from attrs is taken from the instance, None without one)
options_count(attrs, instance) ==
    LET option(i) == IF i \in attrs.given THEN attrs.fields[i] ELSE instance.options[i] IN
      IF option(4) # "" THEN 4
      ELSE IF option(3) # "" THEN 3
      ELSE IF option(2) # "" THEN 2
      ELSE IF option(1) # "" THEN 1
      ELSE 0

\* validate: correct_answer from attrs, else from the instance; without either
\* nothing is checked
validate(attrs, instance, has_instance) ==
    LET has_answer     == attrs.has_correct \/ has_instance
        correct_answer == IF attrs.has_correct THEN attrs.correct_answer ELSE instance.correct_answer IN
      has_answer => /\ options_count(attrs, instance) # 0
                    /\ ~ (correct_answer < 0 \/ correct_answer >= options_count(attrs, instance))

\* serializer.save(): the validated attrs written over the instance
Applied(attrs, instance) ==
    [instance EXCEPT !.options = [i \in 1..4 |-> IF i \in attrs.given THEN attrs.fields[i] ELSE @[i]],
                     !.correct_answer = IF attrs.has_correct THEN attrs.correct_answer ELSE @]

\* the model defaults of a new question: global, 20 points, active, options ''
NewQuestion == [party |-> "global", correct_answer |-> 0, points |-> 20, is_active |-> TRUE,
                options |-> <<"", "", "", "">>]

\* TriviaQuestionViewSet.create: permission, validation, INSERT
TriviaQuestion_create(r, u, data) ==
    /\ Accept(r)
    /\ LET req   == NewReq("question_create", u)
           attrs == to_internal_value(data) IN
         IF ~ IsAdminOrReadOnly(u)
         THEN Return(r, req, "403") /\ UNCHANGED <<questions, nextId>>
         ELSE IF ~ (fields_valid(attrs, FALSE) /\ validate(attrs, NoQuestion, FALSE))
         THEN Return(r, req, "400") /\ UNCHANGED <<questions, nextId>>
         ELSE /\ questions' = (nextId :> Applied(attrs, NewQuestion)) @@ questions
              /\ nextId' = nextId + 1
              /\ Return(r, [req EXCEPT !.pk = nextId, !.question = Applied(attrs, NewQuestion),
                                       !.created = TRUE], "ok")
    /\ UNCHANGED <<scores, awards, badges, rsvps, hist>>

\* update / partial_update up to the save: permission, get_object, validation
\* against the instance just read
TriviaQuestion_UpdateStart(r, u, pk, data, partial) ==
    /\ Accept(r)
    /\ UNCHANGED <<scores, awards, badges, questions, rsvps, nextId, hist>>
    /\ LET req   == [NewReq(IF partial THEN "question_partial_update" ELSE "question_update", u)
                        EXCEPT !.pk = pk]
           attrs == to_internal_value(data) IN
         IF ~ IsAdminOrReadOnly(u) THEN Return(r, req, "403")
         ELSE IF pk \notin DOMAIN questions THEN Return(r, req, "404")
         ELSE IF ~ (fields_valid(attrs, partial) /\ validate(attrs, questions[pk], TRUE))
         THEN Return(r, req, "400")
         ELSE Continue(r, [req EXCEPT !.pc = "save", !.question = Applied(attrs, questions[pk])])

\* perform_update: serializer.save() writes every column of the instance
TriviaQuestion_UpdateSave(r) ==
    /\ reqs[r].op \in {"question_update", "question_partial_update"}
    /\ reqs[r].pc = "save"
    /\ questions' = [questions EXCEPT ![reqs[r].pk] = reqs[r].question]
    /\ Return(r, [reqs[r] EXCEPT !.wrote = TRUE], "ok")
    /\ UNCHANGED <<scores, awards, badges, rsvps, nextId, budget, hist>>

----------------------------------------------------------------------------
(* views/game.py : GameScoreSerializer, GameScoreViewSet *)

get_rank_gte(rows, obj) ==
    Cardinality({s \in rows : s.party = obj.party /\ s.total_points >= obj.total_points}) + 1

\* GameScoreSerializer.get_rank
get_rank(rows, obj) ==
    Cardinality({s \in rows : s.party = obj.party /\ s.total_points > obj.total_points}) + 1

\* create up to the insert: party given, party exists, no row for (user, party) yet
Game_CreateStart(r, u, p, t) ==
    /\ Accept(r)
    /\ UNCHANGED <<scores, awards, badges, questions, rsvps, nextId, hist>>
    /\ LET req == [NewReq("game_create", u) EXCEPT !.party = p, !.amount = t] IN
         IF p = MissingParty THEN Return(r, req, "400")
         ELSE IF p = NoParty THEN Return(r, req, "404")
         ELSE IF FirstScore(scores, u, p) # NoScore THEN Return(r, req, "400")
         ELSE Continue(r, [req EXCEPT !.pc = "insert"])

\* GameScore.objects.create(user, party, total_points): level takes its default 1
Game_CreateInsert(r) ==
    /\ reqs[r].op = "game_create"
    /\ reqs[r].pc = "insert"
    /\ LET inst == ScoreRow(nextId, reqs[r].caller, reqs[r].party, reqs[r].amount, 1) IN
         IF ScoreUnique(scores, inst.user, inst.party) /\ PositiveOK(inst)
         THEN /\ scores' = scores \cup {inst}
              /\ nextId' = nextId + 1
              /\ hist' = Versions(HistCreate(hist, nextId, inst.total_points), scores, scores')
              /\ Continue(r, [reqs[r] EXCEPT !.pc = "save", !.score = inst, !.created = TRUE])
         ELSE /\ Return(r, reqs[r], "500")
              /\ UNCHANGED <<scores, nextId, hist>>
    /\ UNCHANGED <<awards, badges, questions, rsvps, budget>>

\* score.level = score.calculate_level(); score.save(); the serialized score
Game_CreateSave(r) ==
    /\ reqs[r].op = "game_create"
    /\ reqs[r].pc = "save"
    /\ LET inst == WithLevel(reqs[r].score) IN
         /\ scores' = SaveRow(scores, inst)
         /\ hist' = Versions(hist, scores, scores')
         /\ ReturnScore(r, [reqs[r] EXCEPT !.wrote = TRUE, !.saved = inst,
                                           !.resp_rank = get_rank(scores', inst)], "ok", inst)
    /\ UNCHANGED <<awards, badges, questions, rsvps, nextId, budget>>

\* update up to the first write: get_object, owner-or-host check, then either
\* the points_to_add branch (request value added as it came, level recomputed)
\* or ModelViewSet.update with GameScoreUpdateSerializer (total_points validated
\* as a PositiveIntegerField, level left as it is)
Game_UpdateStart(r, u, pk, body) ==
    /\ Accept(r)
    /\ UNCHANGED <<scores, awards, badges, questions, rsvps, nextId, hist>>
    /\ LET score == ById(scores, pk)
           req   == [Target(NewReq("game_update", u), pk) EXCEPT
                        !.amount = body.val, !.is_int = (body.kind = "int")] IN
         IF score = NoScore THEN Return(r, req, "404")
         ELSE IF score.user # u /\ host(score.party) # u THEN Return(r, req, "403")
         ELSE IF body.field = "points_to_add"
         THEN IF body.kind # "int" THEN Return(r, req, "500")
              ELSE Continue(r, [req EXCEPT !.pc = "save", !.party = score.party,
                                   !.read_total = score.total_points,
                                   !.score = WithLevel(WithPoints(score, score.total_points + body.val))])
         ELSE IF body.kind # "int" \/ body.val < 0 THEN Return(r, req, "400")
              ELSE Continue(r, [req EXCEPT !.op = "game_update_set", !.pc = "write",
                                   !.party = score.party, !.read_total = score.total_points,
                                   !.score = WithPoints(score, body.val)])

\* ModelViewSet.update: serializer.save()
Game_UpdateWrite(r) ==
    /\ reqs[r].op = "game_update_set"
    /\ reqs[r].pc = "write"
    /\ scores' = SaveRow(scores, reqs[r].score)
    /\ hist' = Versions(HistSet(hist, reqs[r].score.id), scores, scores')
    /\ ReturnScore(r, [reqs[r] EXCEPT !.wrote = TRUE, !.saved = reqs[r].score], "ok", reqs[r].score)
    /\ UNCHANGED <<awards, badges, questions, rsvps, nextId, budget>>

Game_add_points_rejects(points) == points <= 0

\* add_points up to the save: get_object, host check, points check,
\* score.total_points += points; score.level = score.calculate_level()
Game_AddPointsStart(r, u, pk, x) ==
    /\ Accept(r)
    /\ UNCHANGED <<scores, awards, badges, questions, rsvps, nextId, hist>>
    /\ LET score == ById(scores, pk)
           req   == [Target(NewReq("game_add_points", u), pk) EXCEPT
                        !.amount = x.val, !.is_int = (x.kind = "int")] IN
         IF score = NoScore THEN Return(r, req, "404")
         ELSE IF host(score.party) # u THEN Return(r, req, "403")
         ELSE IF x.kind # "int" THEN Return(r, req, "500")
         ELSE IF Game_add_points_rejects(x.val) THEN Return(r, req, "400")
         ELSE Continue(r, [req EXCEPT !.pc = "save", !.party = score.party,
                              !.read_total = score.total_points,
                              !.score = WithLevel(WithPoints(score, score.total_points + x.val))])

\* score.save() of update (points_to_add) and of add_points
Game_Save(r) ==
    /\ reqs[r].op \in {"game_update", "game_add_points"}
    /\ reqs[r].pc = "save"
    /\ IF PositiveOK(reqs[r].score)
       THEN /\ scores' = SaveRow(scores, reqs[r].score)
            /\ hist' = Versions(IF reqs[r].amount > 0
                                THEN HistAdd(hist, reqs[r].score.id, reqs[r].amount)
                                ELSE HistSet(hist, reqs[r].score.id), scores, scores')
            /\ Continue(r, [reqs[r] EXCEPT !.pc = "badge_query", !.wrote = TRUE,
                                           !.saved = reqs[r].score])
       ELSE /\ Return(r, reqs[r], "500")
            /\ UNCHANGED <<scores, hist>>
    /\ UNCHANGED <<awards, badges, questions, rsvps, nextId, budget>>

active_with_lt(bs, total_points) ==
    {b \in DOMAIN bs : bs[b].is_active /\ bs[b].points_required < total_points}

\* Badge.objects.filter(is_active=True, points_required__lte=total_points)
active_with_lte(bs, total_points) ==
    {b \in DOMAIN bs : bs[b].is_active /\ bs[b].points_required <= total_points}

\* what the badge query of a request saw
Seen(req, bs, earned, t) ==
    [req EXCEPT !.seen_active = {b \in DOMAIN bs : bs[b].is_active},
                !.seen_required = [b \in DOMAIN bs |-> bs[b].points_required],
                !.seen_earned = earned, !.elig_total = t]

\* the response of update (points_to_add) and of add_points
Game_Return(r, req, aw) ==
    ReturnScore(r, [req EXCEPT !.resp_rank = get_rank(scores, req.score),
                               !.awards_after = earned_badge_ids(aw, req.score.user, req.score.party)],
                "ok", req.score)

\* _check_and_award_badges: the badge query (one SELECT when the loop starts)
Game_BadgeQuery(r) ==
    /\ reqs[r].op \in {"game_update", "game_add_points"}
    /\ reqs[r].pc = "badge_query"
    /\ LET score == reqs[r].score
           req   == Seen(reqs[r], badges, earned_badge_ids(awards, score.user, score.party),
                         score.total_points)
           available_badges == active_with_lte(badges, score.total_points) IN
         IF available_badges = {}
         THEN Game_Return(r, req, awards)
         ELSE Continue(r, [req EXCEPT !.pc = "goc_get", !.todo = available_badges])
    /\ UNCHANGED <<scores, awards, badges, questions, rsvps, nextId, budget, hist>>

\* _check_and_award_badges: get_or_create, the get, for the next badge of the loop
\* (the query has no ORDER BY: the badges come in any order)
Game_BadgeGet(r, b) ==
    /\ reqs[r].op \in {"game_update", "game_add_points"}
    /\ reqs[r].pc = "goc_get"
    /\ b \in reqs[r].todo
    /\ LET score == reqs[r].score IN
         IF ~ award_exists(awards, score.user, b, score.party)
         THEN Continue(r, [reqs[r] EXCEPT !.pc = "goc_create", !.cur = b])
         ELSE IF reqs[r].todo = {b}
         THEN Game_Return(r, reqs[r], awards)
         ELSE Continue(r, [reqs[r] EXCEPT !.todo = @ \ {b}])
    /\ UNCHANGED <<scores, awards, badges, questions, rsvps, nextId, budget, hist>>

\* _check_and_award_badges: get_or_create, the create; an IntegrityError is
\* caught and the row is read again
Game_BadgeCreate(r) ==
    /\ reqs[r].op \in {"game_update", "game_add_points"}
    /\ reqs[r].pc = "goc_create"
    /\ LET score == reqs[r].score
           b     == reqs[r].cur
           won   == AwardUnique(awards, score.user, b, score.party)
           req   == [reqs[r] EXCEPT !.todo = @ \ {b}, !.cur = "none", !.pc = "goc_get",
                                    !.new_badges = IF won THEN @ \cup {b} ELSE @] IN
         /\ IF won
            THEN /\ awards' = awards \cup {AwardRow(nextId, score.user, b, score.party)}
                 /\ nextId' = nextId + 1
            ELSE UNCHANGED <<awards, nextId>>
         /\ IF req.todo = {} THEN Game_Return(r, req, awards') ELSE Continue(r, req)
    /\ UNCHANGED <<scores, badges, questions, rsvps, budget, hist>>

----------------------------------------------------------------------------
(* views/badges.py : UserBadgeViewSet, BadgeViewSet *)

auto_award_available_all(bs, earned, total_points) == active_with_lte(bs, total_points)

\* Badge.objects.filter(is_active=True, points_required__lte=total_points)
\*      .exclude(id__in=earned_badge_ids)
auto_award_available(bs, earned, total_points) == active_with_lte(bs, total_points) \ earned

\* the response of auto_award; a call that ran from its score read to its return
\* with the pair's points and the catalog untouched settles the pair
Award_Return(r, req, st, aw) ==
    LET u == req.caller
        p == req.party
        clean == (req.stamp = Stamp(hist, u, p)) IN
      /\ Return(r, [req EXCEPT !.clean = clean,
                               !.awards_after = earned_badge_ids(aw, u, p)], st)
      /\ hist' = IF clean /\ st # "500"
                 THEN [hist EXCEPT !.settled[<<u, p>>] = req.stamp]
                 ELSE hist

\* auto_award up to the badge query: party given, Party.objects.get,
\* GameScore.objects.filter(user, party).first()
auto_award_Start(r, u, p) ==
    /\ Accept(r)
    /\ UNCHANGED <<scores, awards, badges, questions, rsvps, nextId>>
    /\ LET req == [NewReq("auto_award", u) EXCEPT !.party = p] IN
         IF p = MissingParty THEN Return(r, req, "400") /\ UNCHANGED hist
         ELSE IF p = NoParty THEN Return(r, req, "404") /\ UNCHANGED hist
         ELSE LET user_score == FirstScore(scores, u, p)
                  here == [req EXCEPT !.stamp = Stamp(hist, u, p),
                                      !.after_settled = (hist.settled[<<u, p>>] = Stamp(hist, u, p))] IN
              IF user_score = NoScore
              THEN Award_Return(r, here, "400", awards)
              ELSE /\ Continue(r, [here EXCEPT !.pc = "query", !.score = user_score,
                                               !.read_total = user_score.total_points])
                   /\ UNCHANGED hist

\* auto_award: available_badges, one SELECT when the loop starts: active badges
\* with points_required <= total_points, without the ones already earned
auto_award_Query(r) ==
    /\ reqs[r].op = "auto_award"
    /\ reqs[r].pc = "query"
    /\ LET u == reqs[r].caller
           p == reqs[r].party
           earned == earned_badge_ids(awards, u, p)
           available_badges == auto_award_available(badges, earned, reqs[r].score.total_points)
           req == Seen(reqs[r], badges, earned, reqs[r].score.total_points) IN
         IF available_badges = {}
         THEN Award_Return(r, req, "ok", awards)
         ELSE Continue(r, [req EXCEPT !.pc = "insert", !.todo = available_badges]) /\ UNCHANGED hist
    /\ UNCHANGED <<scores, awards, badges, questions, rsvps, nextId, budget>>

\* auto_award: UserBadge.objects.create for the next badge of the loop (the query
\* has no ORDER BY: the badges come in any order); an IntegrityError leaves the
\* handler as an unhandled exception
auto_award_Insert(r, b) ==
    /\ reqs[r].op = "auto_award"
    /\ reqs[r].pc = "insert"
    /\ b \in reqs[r].todo
    /\ LET u == reqs[r].caller
           p == reqs[r].party IN
         IF AwardUnique(awards, u, b, p)
         THEN /\ awards' = awards \cup {AwardRow(nextId, u, b, p)}
              /\ nextId' = nextId + 1
              /\ LET req == [reqs[r] EXCEPT !.todo = @ \ {b}, !.new_badges = @ \cup {b}] IN
                   IF req.todo = {}
                   THEN Award_Return(r, req, "ok", awards')
                   ELSE Continue(r, req) /\ UNCHANGED hist
         ELSE /\ UNCHANGED <<awards, nextId>>
              /\ Award_Return(r, reqs[r], "500", awards)
    /\ UNCHANGED <<scores, badges, questions, rsvps, budget>>

\* UserBadgeViewSet.create up to super().create: staff-or-self check, the gets of
\* badge, party and user, the already-earned check and, for callers that are not
\* staff, the points check
UserBadge_CreateStart(r, u, target, b, p) ==
    /\ Accept(r)
    /\ UNCHANGED <<scores, awards, badges, questions, rsvps, nextId, hist>>
    /\ LET req == [NewReq("userbadge_create", u) EXCEPT !.party = p, !.cur = b, !.target_user = target]
           user_score == FirstScore(scores, target, p)
           user_points == IF user_score # NoScore THEN user_score.total_points ELSE 0 IN
         IF target # u /\ ~ is_staff(u) THEN Return(r, req, "403")
         ELSE IF b = NoBadge \/ p = NoParty THEN Return(r, req, "400")
         ELSE IF award_exists(awards, target, b, p) THEN Return(r, req, "400")
         ELSE IF ~ is_staff(u) /\ user_points < badges[b].points_required THEN Return(r, req, "400")
         ELSE reqs' = [reqs EXCEPT ![r] = [req EXCEPT !.pc = "validate", !.read_total = user_points]]
              /\ UNCHANGED resp

\* CreateModelMixin.create: serializer.is_valid runs the UniqueTogetherValidator
\* of (user, badge, party)
UserBadge_CreateValidate(r) ==
    /\ reqs[r].op = "userbadge_create"
    /\ reqs[r].pc = "validate"
    /\ IF ~ award_exists(awards, reqs[r].target_user, reqs[r].cur, reqs[r].party)
       THEN reqs' = [reqs EXCEPT ![r].pc = "insert"] /\ UNCHANGED resp
       ELSE Return(r, reqs[r], "400")
    /\ UNCHANGED <<scores, awards, badges, questions, rsvps, nextId, budget, hist>>

\* perform_create: serializer.save()
UserBadge_CreateInsert(r) ==
    /\ reqs[r].op = "userbadge_create"
    /\ reqs[r].pc = "insert"
    /\ LET u == reqs[r].target_user
           b == reqs[r].cur
           p == reqs[r].party IN
         IF AwardUnique(awards, u, b, p)
         THEN /\ awards' = awards \cup {AwardRow(nextId, u, b, p)}
              /\ nextId' = nextId + 1
              /\ Return(r, [reqs[r] EXCEPT !.new_badges = {b}], "ok")
         ELSE /\ UNCHANGED <<awards, nextId>>
              /\ Return(r, reqs[r], "500")
    /\ UNCHANGED <<scores, badges, questions, rsvps, budget, hist>>

\* UserBadgeViewSet.partial_update (ModelViewSet, not overridden) with a 'user'
\* in the body: get_object on get_queryset (staff see every award, others their own)
UserBadge_UpdateStart(r, u, pk, target) ==
    /\ Accept(r)
    /\ UNCHANGED <<scores, awards, badges, questions, rsvps, nextId, hist>>
    /\ LET req   == [NewReq("userbadge_update", u) EXCEPT !.pk = pk, !.target_user = target]
           found == {a \in awards : a.id = pk /\ (is_staff(u) \/ a.user = u)} IN
         IF found = {} THEN Return(r, req, "404")
         ELSE LET a == CHOOSE x \in found : TRUE IN
              Continue(r, [req EXCEPT !.pc = "validate", !.cur = a.badge, !.party = a.party,
                                      !.pk_exists = TRUE])

\* UpdateModelMixin.update: serializer.is_valid runs the UniqueTogetherValidator
\* of (user, badge, party), the instance itself left out
UserBadge_UpdateValidate(r) ==
    /\ reqs[r].op = "userbadge_update"
    /\ reqs[r].pc = "validate"
    /\ IF \E a \in awards : /\ a.id # reqs[r].pk /\ a.user = reqs[r].target_user
                             /\ a.badge = reqs[r].cur /\ a.party = reqs[r].party
       THEN Return(r, reqs[r], "400")
       ELSE Continue(r, [reqs[r] EXCEPT !.pc = "save"])
    /\ UNCHANGED <<scores, awards, badges, questions, rsvps, nextId, budget, hist>>

\* perform_update: serializer.save() writes the instance with the new user
UserBadge_UpdateSave(r) ==
    /\ reqs[r].op = "userbadge_update"
    /\ reqs[r].pc = "save"
    /\ LET inst   == AwardRow(reqs[r].pk, reqs[r].target_user, reqs[r].cur, reqs[r].party)
           others == {a \in awards : a.id # inst.id} IN
         IF AwardUnique(others, inst.user, inst.badge, inst.party)
         THEN /\ awards' = others \cup {inst}
              /\ Return(r, [reqs[r] EXCEPT !.wrote = TRUE], "ok")
         ELSE /\ UNCHANGED awards
              /\ Return(r, reqs[r], "500")
    /\ UNCHANGED <<scores, badges, questions, rsvps, nextId, budget, hist>>


\* DestroyModelMixin.destroy (not overridden by UserBadgeViewSet): get_object
\* over get_queryset, which shows a non-staff caller only their own awards
UserBadge_DestroyStart(r, u, pk) ==
    /\ Accept(r)
    /\ UNCHANGED <<scores, awards, badges, questions, rsvps, nextId, hist>>
    /\ LET req   == [NewReq("userbadge_destroy", u) EXCEPT !.pk = pk]
           found == {a \in awards : a.id = pk /\ (is_staff(u) \/ a.user = u)} IN
         IF found = {} THEN Return(r, req, "404")
         ELSE LET a == CHOOSE x \in found : TRUE IN
              Continue(r, [req EXCEPT !.pc = "delete", !.cur = a.badge, !.party = a.party,
                                      !.target_user = a.user, !.pk_exists = TRUE])

\* perform_destroy: instance.delete() removes the row with this id, if still there
UserBadge_DestroyDelete(r) ==
    /\ reqs[r].op = "userbadge_destroy"
    /\ reqs[r].pc = "delete"
    /\ awards' = {a \in awards : a.id # reqs[r].pk}
    /\ Return(r, [reqs[r] EXCEPT !.wrote = TRUE], "ok")
    /\ UNCHANGED <<scores, badges, questions, rsvps, nextId, budget, hist>>

(* views/badges.py : BadgeViewSet.available_for_user *)

\* Badge.objects.filter(is_active=True, points_required__lte=user_points)
\*      .exclude(id__in=earned_badge_ids)
available_badges(bs, earned, user_points) ==
    {b \in DOMAIN bs : bs[b].is_active /\ bs[b].points_required <= user_points} \ earned

upcoming_badges_unbounded(bs, earned, user_points) ==
    {b \in DOMAIN bs : bs[b].is_active /\ bs[b].points_required > user_points} \ earned

\* Badge.objects.filter(is_active=True, points_required__gt=user_points,
\*      points_required__lte=user_points + 50).exclude(id__in=earned_badge_ids)
upcoming_badges(bs, earned, user_points) ==
    {b \in DOMAIN bs : /\ bs[b].is_active
                       /\ bs[b].points_required > user_points
                       /\ bs[b].points_required <= user_points + 50} \ earned

\* available_for_user up to the badge queries: party given, Party.objects.get,
\* the score of (user, party); no score counts as 0 points
available_for_user_Start(r, u, p) ==
    /\ Accept(r)
    /\ UNCHANGED <<scores, awards, badges, questions, rsvps, nextId, hist>>
    /\ LET req == [NewReq("available_for_user", u) EXCEPT !.party = p]
           user_score == FirstScore(scores, u, p) IN
         IF p = MissingParty THEN Return(r, req, "400")
         ELSE IF p = NoParty THEN Return(r, req, "404")
         ELSE Continue(r, [req EXCEPT !.pc = "available", !.score = user_score,
                                      !.stamp = Stamp(hist, u, p),
                                      !.read_total = IF user_score = NoScore THEN 0
                                                     ELSE user_score.total_points])

\* available_serializer.data evaluates the first query (the earned ids are a
\* subquery of it)
available_for_user_Available(r) ==
    /\ reqs[r].op = "available_for_user"
    /\ reqs[r].pc = "available"
    /\ LET earned == earned_badge_ids(awards, reqs[r].caller, reqs[r].party) IN
         Continue(r, [reqs[r] EXCEPT !.pc = "upcoming", !.seen_earned = earned,
                         !.available = available_badges(badges, earned, reqs[r].read_total)])
    /\ UNCHANGED <<scores, awards, badges, questions, rsvps, nextId, budget, hist>>

\* upcoming_serializer.data evaluates the second query; the response
available_for_user_Upcoming(r) ==
    /\ reqs[r].op = "available_for_user"
    /\ reqs[r].pc = "upcoming"
    /\ LET earned == earned_badge_ids(awards, reqs[r].caller, reqs[r].party) IN
         Return(r, [reqs[r] EXCEPT !.upcoming = upcoming_badges(badges, earned, reqs[r].read_total),
                                   !.awards_after = earned,
                                   !.clean = (reqs[r].stamp = Stamp(hist, reqs[r].caller, reqs[r].party))],
                "ok")
    /\ UNCHANGED <<scores, awards, badges, questions, rsvps, nextId, budget, hist>>

\* BadgeViewSet.partial_update (IsAdminUser): one field of one badge
Badge_partial_update(r, u, b, edit) ==
    /\ Accept(r)
    /\ hist.catver < MaxCatalogEdits
    /\ LET req == [NewReq("badge_partial_update", u) EXCEPT !.cur = b] IN
         IF ~ is_staff(u)
         THEN Return(r, req, "403") /\ UNCHANGED <<badges, hist>>
         ELSE /\ badges' = IF edit.field = "is_active"
                           THEN [badges EXCEPT ![b].is_active = edit.val]
                           ELSE [badges EXCEPT ![b].points_required = edit.num]
              /\ hist' = [hist EXCEPT !.catver = @ + 1]
              /\ Return(r, req, "ok")
    /\ UNCHANGED <<scores, awards, questions, rsvps, nextId>>

----------------------------------------------------------------------------
(* views/game_score.py : ranking; views/game.py : retrieve with GameScoreSerializer *)

\* ranking: higher_scores + 1 within the party of the score
GS_ranking(r, u, pk) ==
    /\ Accept(r)
    /\ UNCHANGED <<scores, awards, badges, questions, rsvps, nextId, hist>>
    /\ LET score == ById(GS_queryset(scores, u), pk)
           req   == Target(NewReq("gs_ranking", u), pk) IN
         IF score = NoScore THEN Return(r, req, "404")
         ELSE LET higher_scores == Cardinality({s \in scores : s.party = score.party
                                                   /\ s.total_points > score.total_points}) IN
              ReturnScore(r, [req EXCEPT !.resp_rank = higher_scores + 1, !.party = score.party],
                          "ok", score)

\* RetrieveModelMixin.retrieve: the serialized score carries get_rank
\* the results a query .filter(party=p).order_by('-total_points')[:limit] can
\* give: every row of the party once, totals not increasing, rows with equal
\* totals in any order, cut after limit rows
Ordered(rows, p, limit) ==
    LET inparty == {s \in rows : s.party = p}
        n == Cardinality(inparty) IN
      { SubSeq(f, 1, IF n < limit THEN n ELSE limit) :
          f \in { g \in [1..n -> inparty] :
                    /\ \A i, j \in 1..n : i # j => g[i] # g[j]
                    /\ \A i \in 1..(n - 1) : g[i].total_points >= g[i + 1].total_points } }

\* for i, score in enumerate(top_players, 1): 'rank': i
Enumerated(top) ==
    [i \in 1..Len(top) |-> [rank |-> i, user |-> top[i].user,
                            total_points |-> top[i].total_points, level |-> top[i].level]]

TopPlayers == 10

\* party_stats: the party, scores.exists(), the aggregates and the ten best
\* scores, numbered as they come
GS_party_stats(r, u, p) ==
    /\ Accept(r)
    /\ UNCHANGED <<scores, awards, badges, questions, rsvps, nextId, hist>>
    /\ LET req == [NewReq("gs_party_stats", u) EXCEPT !.party = p] IN
         IF p = NoParty THEN Return(r, req, "404")
         ELSE \E top_players \in Ordered(scores, p, TopPlayers) :
                 Return(r, [req EXCEPT !.listing = Enumerated(top_players)], "ok")

DefaultLimit == 10

\* views/game.py leaderboard: party_id is required, then the best scores of the
\* party up to the default limit, numbered as they come
Game_leaderboard(r, u, p) ==
    /\ Accept(r)
    /\ UNCHANGED <<scores, awards, badges, questions, rsvps, nextId, hist>>
    /\ LET req == [NewReq("game_leaderboard", u) EXCEPT !.party = p] IN
         IF p = MissingParty THEN Return(r, req, "400")
         ELSE IF p = NoParty THEN Return(r, req, "404")
         ELSE \E top \in Ordered(scores, p, DefaultLimit) :
                 Return(r, [req EXCEPT !.listing = Enumerated(top)], "ok")

Game_retrieve(r, u, pk) ==
    /\ Accept(r)
    /\ UNCHANGED <<scores, awards, badges, questions, rsvps, nextId, hist>>
    /\ LET score == ById(scores, pk)
           req   == Target(NewReq("game_retrieve", u), pk) IN
         IF score = NoScore THEN Return(r, req, "404")
         ELSE ReturnScore(r, [req EXCEPT !.resp_rank = get_rank(scores, score), !.party = score.party],
                          "ok", score)

----------------------------------------------------------------------------
(* Initial states and specifications *)

InitBadges == [b \in BadgeIds |->
                 IF b = "b0" THEN [points_required |-> 0, is_active |-> TRUE]
                 ELSE IF b = "b40" THEN [points_required |-> 40, is_active |-> TRUE]
                 ELSE [points_required |-> 10, is_active |-> FALSE]]

InitQuestions == [q \in 1..5 |->
                    IF q = 1 THEN [party |-> "global", correct_answer |-> 1, points |-> 20, is_active |-> TRUE,
                                   options |-> <<"a", "b", "", "">>]
                    ELSE IF q = 2 THEN [party |-> "p1", correct_answer |-> 0, points |-> 25, is_active |-> TRUE,
                                        options |-> <<"a", "b", "c", "">>]
                    ELSE IF q = 3 THEN [party |-> "p2", correct_answer |-> 0, points |-> 15, is_active |-> TRUE,
                                        options |-> <<"a", "b", "", "">>]
                    ELSE IF q = 4 THEN [party |-> "global", correct_answer |-> 2, points |-> 15, is_active |-> FALSE,
                                        options |-> <<"a", "b", "c", "">>]
                    ELSE [party |-> "p1", correct_answer |-> 3, points |-> 15, is_active |-> TRUE,
                          options |-> <<"a", "b", "c", "d">>]]

\* GameScore tables the handlers leave behind
InitScoreTables ==
    { {},
      {ScoreRow(1, "ann", "p1", 0, 1)},
      {ScoreRow(1, "ann", "p1", 90, 1), ScoreRow(2, "sue", "p1", 100, 2)} }

InitHist(rows) ==
    [acct |-> [i \in {s.id : s \in rows} |->
                 [base |-> ById(rows, i).total_points, added |-> 0, adds_only |-> TRUE]],
     ver |-> [k \in Pairs |-> 0],
     catver |-> 0,
     settled |-> [k \in Pairs |-> NoStamp]]

InitWith(tables, n) ==
    /\ scores \in tables
    /\ awards = {}
    /\ badges = InitBadges
    /\ questions = InitQuestions
    /\ rsvps = {}
    /\ nextId = 10
    /\ reqs = [r \in Slots |-> IdleReq]
    /\ resp = IdleReq
    /\ budget = n
    /\ hist = InitHist(scores)

\* every handler that writes a score; one request less than the focused
\* specifications below, which keeps the state space checkable
Init == InitWith(InitScoreTables, MaxRequests - 1)

(* request bodies *)
TotalInputs  == {0, 150}                 \* total_points of a create / update
IntInputs    == {-5, 0, 10, 100}         \* integer 'points' / 'points_to_add'
PointsInputs == {[kind |-> "int", val |-> v] : v \in IntInputs} \cup {[kind |-> "str", val |-> 0]}
Callers      == {"ann", "sue"}
PkInputs     == {1, 2, NoPk}
AnswerLists  == { <<>>,
                  <<[question_id |-> 1, answer |-> 0]>>,
                  <<[question_id |-> 1, answer |-> 1], [question_id |-> 2, answer |-> 0],
                    [question_id |-> 3, answer |-> 0], [question_id |-> 7, answer |-> 0]>> }
UpdateBodies == {[field |-> "points_to_add", kind |-> "int", val |-> v] : v \in {-5, 10}}
                \cup {[field |-> "total_points", kind |-> "int", val |-> v] : v \in {-5, 150}}

Next ==
    \/ \E r \in Slots, u \in Callers, p \in {"p1", NoParty}, t \in TotalInputs :
          GS_CreateInsert(r, u, p, t)
    \/ \E r \in Slots : GS_SaveLevel(r)
    \/ \E r \in Slots, u \in Callers, pk \in PkInputs, t \in TotalInputs : GS_UpdateStart(r, u, pk, t)
    \/ \E r \in Slots : GS_UpdateWrite(r)
    \/ \E r \in Slots, u \in Callers, pk \in PkInputs, x \in PointsInputs : GS_AddPointsStart(r, u, pk, x)
    \/ \E r \in Slots : GS_AddPointsSave(r)
    \/ \E r \in Slots, u \in Callers, p \in {"p1", NoParty, MissingParty}, a \in AnswerLists :
          SubmitStart(r, u, p, a)
    \/ \E r \in Slots : SubmitCreate(r)
    \/ \E r \in Slots : SubmitSave(r)
    \/ \E r \in Slots, u \in Callers, p \in {"p1", NoParty, MissingParty}, t \in TotalInputs :
          Game_CreateStart(r, u, p, t)
    \/ \E r \in Slots : Game_CreateInsert(r)
    \/ \E r \in Slots : Game_CreateSave(r)
    \/ \E r \in Slots, u \in Callers, pk \in PkInputs, body \in UpdateBodies :
          Game_UpdateStart(r, u, pk, body)
    \/ \E r \in Slots : Game_UpdateWrite(r)
    \/ \E r \in Slots, u \in Callers, pk \in PkInputs, x \in PointsInputs :
          Game_AddPointsStart(r, u, pk, x)
    \/ \E r \in Slots : Game_Save(r)
    \/ \E r \in Slots : Game_BadgeQuery(r)
    \/ \E r \in Slots, b \in BadgeIds : Game_BadgeGet(r, b)
    \/ \E r \in Slots : Game_BadgeCreate(r)

Spec == Init /\ [][Next]_vars

(* Point additions: add_points of both viewsets and trivia submit *)

AddCallers == {"ann", "sue"}
AddPks     == {1, NoPk}
AddInputs  == {[kind |-> "int", val |-> v] : v \in {-5, 0, 10}} \cup {[kind |-> "str", val |-> 0]}
AddAnswers == { <<[question_id |-> 1, answer |-> 0]>>,
                <<[question_id |-> 1, answer |-> 1], [question_id |-> 2, answer |-> 0],
                  [question_id |-> 3, answer |-> 0], [question_id |-> 7, answer |-> 0]>> }

InitAddTables ==
    { {}, {ScoreRow(1, "ann", "p1", 0, 1)}, {ScoreRow(1, "ann", "p1", 90, 1)} }

InitAdd == InitWith(InitAddTables, MaxRequests)

NextAdd ==
    \/ \E r \in Slots, u \in AddCallers, pk \in AddPks, x \in AddInputs : GS_AddPointsStart(r, u, pk, x)
    \/ \E r \in Slots : GS_AddPointsSave(r)
    \/ \E r \in Slots, u \in AddCallers, pk \in AddPks, x \in AddInputs : Game_AddPointsStart(r, u, pk, x)
    \/ \E r \in Slots : Game_Save(r)
    \/ \E r \in Slots : Game_BadgeQuery(r)
    \/ \E r \in Slots, b \in BadgeIds : Game_BadgeGet(r, b)
    \/ \E r \in Slots : Game_BadgeCreate(r)
    \/ \E r \in Slots, p \in {"p1"}, a \in AddAnswers : SubmitStart(r, "ann", p, a)
    \/ \E r \in Slots : SubmitCreate(r)
    \/ \E r \in Slots : SubmitSave(r)

SpecAdd == InitAdd /\ [][NextAdd]_vars

(* Badge awards: auto_award, direct award, the badge check of add_points, catalog edits *)

BadgeEdits == {[field |-> "is_active", val |-> TRUE, num |-> 0],
               [field |-> "is_active", val |-> FALSE, num |-> 0],
               [field |-> "points_required", val |-> TRUE, num |-> 0]}

InitBadgeTables ==
    { {}, {ScoreRow(1, "ann", "p1", 0, 1)}, {ScoreRow(1, "ann", "p1", 40, 1)} }

InitBadge == InitWith(InitBadgeTables, MaxRequests)

NextBadge ==
    \/ \E r \in Slots, u \in {"ann", "sue"}, p \in {"p1", NoParty, MissingParty} : auto_award_Start(r, u, p)
    \/ \E r \in Slots : auto_award_Query(r)
    \/ \E r \in Slots, b \in BadgeIds : auto_award_Insert(r, b)
    \/ \E r \in Slots, u \in {"ann", "sue"}, b \in {"b0", "b40", NoBadge} :
          UserBadge_CreateStart(r, u, "ann", b, "p1")
    \/ \E r \in Slots : UserBadge_CreateValidate(r)
    \/ \E r \in Slots : UserBadge_CreateInsert(r)
    \/ \E r \in Slots, u \in {"ann", "sue"}, b \in {"b40", "b10"}, e \in BadgeEdits :
          Badge_partial_update(r, u, b, e)
    \/ \E r \in Slots, x \in {[kind |-> "int", val |-> 50]} : Game_AddPointsStart(r, "sue", 1, x)
    \/ \E r \in Slots : Game_Save(r)
    \/ \E r \in Slots : Game_BadgeQuery(r)
    \/ \E r \in Slots, b \in BadgeIds : Game_BadgeGet(r, b)
    \/ \E r \in Slots : Game_BadgeCreate(r)

SpecBadge == InitBadge /\ [][NextBadge]_vars

(* Ranks *)

RankTotals == {50, 100}

\* every table in which each user has at most one score in p1 and ann may have
\* one in p2
InitRankTables ==
    { {ScoreRow(1, "ann", "p1", f[1], calculate_level(f[1])) : x \in {1} \cap {i \in {1} : f[1] >= 0}}
      \cup {ScoreRow(2, "bob", "p1", f[2], calculate_level(f[2])) : x \in {1} \cap {i \in {1} : f[2] >= 0}}
      \cup {ScoreRow(3, "sue", "p1", f[3], calculate_level(f[3])) : x \in {1} \cap {i \in {1} : f[3] >= 0}}
      \cup {ScoreRow(4, "ann", "p2", f[4], calculate_level(f[4])) : x \in {1} \cap {i \in {1} : f[4] >= 0}}
      : f \in [1..4 -> RankTotals \cup {-1}] }

InitRank == InitWith(InitRankTables, MaxRequests)

NextRank ==
    \/ \E r \in Slots, u \in Users, pk \in 1..4 : GS_ranking(r, u, pk)
    \/ \E r \in Slots, u \in {"ann"}, pk \in (1..4) \cup {NoPk} : Game_retrieve(r, u, pk)
    \/ \E r \in Slots, p \in {"p1", NoParty} : GS_party_stats(r, "ann", p)
    \/ \E r \in Slots, p \in {"p1", NoParty, MissingParty} : Game_leaderboard(r, "ann", p)

SpecRank == InitRank /\ [][NextRank]_vars

(* Trivia: submissions of answer lists *)

TriviaCallers == {"ann"}
TriviaParties == {"p1", "p2", NoParty, MissingParty}
TriviaAnswers ==
    { <<>>,
      <<[question_id |-> 1, answer |-> 0]>>,
      <<[question_id |-> 1, answer |-> 1], [question_id |-> 2, answer |-> 0],
        [question_id |-> 5, answer |-> 0]>>,
      <<[question_id |-> 3, answer |-> 0], [question_id |-> 4, answer |-> 2],
        [question_id |-> 7, answer |-> 0]>>,
      <<[question_id |-> 7, answer |-> 1], [question_id |-> 1, answer |-> 1],
        [question_id |-> 4, answer |-> 2]>>,
      <<[question_id |-> 1, answer |-> 1], NotADict>>,
      <<[question_id |-> 1, answer |-> 1], [question_id |-> 2, answer |-> 4],
        [question_id |-> 5, answer |-> -1]>>,
      <<[question_id |-> 2, answer |-> 0], [question_id |-> 2, answer |-> 0],
        [question_id |-> 2, answer |-> 0]>> }

InitTriviaTables == { {}, {ScoreRow(1, "ann", "p1", 90, 1)} }

InitTrivia == InitWith(InitTriviaTables, MaxRequests)

NextTrivia ==
    \/ \E r \in Slots, u \in TriviaCallers, p \in TriviaParties, a \in TriviaAnswers :
          SubmitStart(r, u, p, a)
    \/ \E r \in Slots : SubmitCreate(r)
    \/ \E r \in Slots : SubmitSave(r)

SpecTrivia == InitTrivia /\ [][NextTrivia]_vars

(* Award requests: listing, direct creation and update, auto_award, catalog edits *)

AwardCallers == {"ann", "sue"}
AwardTargets == {"ann", "bob"}
AwardPks     == {10, 11}
AwardEdits   == {[field |-> "is_active", val |-> FALSE, num |-> 0],
                 [field |-> "is_active", val |-> TRUE, num |-> 0],
                 [field |-> "points_required", val |-> TRUE, num |-> 50],
                 [field |-> "points_required", val |-> TRUE, num |-> 90]}

InitAwardTables ==
    { {}, {ScoreRow(1, "ann", "p1", 0, 1)}, {ScoreRow(1, "ann", "p1", 40, 1)} }

InitAward == InitWith(InitAwardTables, MaxRequests)

NextAward ==
    \/ \E r \in Slots, p \in {"p1", NoParty, MissingParty} : available_for_user_Start(r, "ann", p)
    \/ \E r \in Slots : available_for_user_Available(r)
    \/ \E r \in Slots : available_for_user_Upcoming(r)
    \/ \E r \in Slots : auto_award_Start(r, "ann", "p1")
    \/ \E r \in Slots : auto_award_Query(r)
    \/ \E r \in Slots, b \in BadgeIds : auto_award_Insert(r, b)
    \/ \E r \in Slots, u \in AwardCallers, t \in AwardTargets, b \in {"b0", "b40"} :
          UserBadge_CreateStart(r, u, t, b, "p1")
    \/ \E r \in Slots : UserBadge_CreateValidate(r)
    \/ \E r \in Slots : UserBadge_CreateInsert(r)
    \/ \E r \in Slots, u \in AwardCallers, pk \in AwardPks, t \in AwardTargets :
          UserBadge_UpdateStart(r, u, pk, t)
    \/ \E r \in Slots : UserBadge_UpdateValidate(r)
    \/ \E r \in Slots : UserBadge_UpdateSave(r)
    \/ \E r \in Slots, u \in AwardCallers, b \in {"b40", "b10"}, e \in AwardEdits :
          Badge_partial_update(r, u, b, e)

SpecAward == InitAward /\ [][NextAward]_vars

(* Question management: create, update and partial update of trivia questions *)

NoFields == [i \in 1..4 |-> ""]

QuestionBodies ==
    { Body(1..4, <<"a", "b", "", "">>, FALSE, <<>>, TRUE, 1),
      Body(1..4, <<"a", "b", "", "">>, FALSE, <<>>, TRUE, 2),
      Body(1..4, <<"a", "b", "", "d">>, FALSE, <<>>, TRUE, 3),
      Body({1, 2}, <<"a", "b", "", "">>, FALSE, <<>>, TRUE, 0),
      Body({}, NoFields, TRUE, <<"a", "b", "c">>, TRUE, 2),
      Body({}, NoFields, TRUE, <<"a">>, TRUE, 0),
      Body({}, NoFields, TRUE, <<"a", "b">>, FALSE, 0),
      Body({}, NoFields, FALSE, <<>>, TRUE, 3),
      Body({}, NoFields, FALSE, <<>>, TRUE, -1),
      Body({3}, NoFields, FALSE, <<>>, FALSE, 0),
      Body({2}, NoFields, FALSE, <<>>, FALSE, 0) }

QuestionPks == {1, 5, NoPk}

InitQuestion == InitWith({{}}, MaxRequests)

NextQuestion ==
    \/ \E r \in Slots, u \in {"ann", "sue"}, d \in QuestionBodies : TriviaQuestion_create(r, u, d)
    \/ \E r \in Slots, u \in {"ann", "sue"}, pk \in QuestionPks, d \in QuestionBodies, partial \in BOOLEAN :
          TriviaQuestion_UpdateStart(r, u, pk, d, partial)
    \/ \E r \in Slots : TriviaQuestion_UpdateSave(r)

SpecQuestion == InitQuestion /\ [][NextQuestion]_vars

(* Point-earning and awarding requests of several users in several parties *)

FrameScores ==
    { ScoreRow(1, "ann", "p1", 90, 1), ScoreRow(2, "bob", "p1", 40, 1),
      ScoreRow(3, "ann", "p2", 0, 1) }

FrameAwards == { AwardRow(4, "bob", "b0", "p1"), AwardRow(5, "ann", "b0", "p2") }

FrameInputs == {[kind |-> "int", val |-> v] : v \in {10, 100}}

FrameAnswers == { <<[question_id |-> 1, answer |-> 1], [question_id |-> 2, answer |-> 0]>> }

InitFrame ==
    /\ scores = FrameScores
    /\ awards = FrameAwards
    /\ badges = InitBadges
    /\ questions = InitQuestions
    /\ rsvps = {}
    /\ nextId = 10
    /\ reqs = [r \in Slots |-> IdleReq]
    /\ resp = IdleReq
    /\ budget = MaxRequests
    /\ hist = InitHist(scores)

NextFrame ==
    \/ \E r \in Slots, u \in {"ann", "sue"}, pk \in {1, 2}, x \in FrameInputs :
          GS_AddPointsStart(r, u, pk, x)
    \/ \E r \in Slots : GS_AddPointsSave(r)
    \/ \E r \in Slots, u \in {"ann", "bob"}, p \in Parties, a \in FrameAnswers :
          SubmitStart(r, u, p, a)
    \/ \E r \in Slots : SubmitCreate(r)
    \/ \E r \in Slots : SubmitSave(r)
    \/ \E r \in Slots, u \in {"ann", "bob"}, p \in Parties : auto_award_Start(r, u, p)
    \/ \E r \in Slots : auto_award_Query(r)
    \/ \E r \in Slots, b \in BadgeIds : auto_award_Insert(r, b)

SpecFrame == InitFrame /\ [][NextFrame]_vars

(* Earning and losing awards: direct creation, automatic awarding, deletion *)

InitEarn == InitWith(InitAwardTables, MaxRequests)

NextEarn ==
    \/ \E r \in Slots : auto_award_Start(r, "ann", "p1")
    \/ \E r \in Slots : auto_award_Query(r)
    \/ \E r \in Slots, b \in BadgeIds : auto_award_Insert(r, b)
    \/ \E r \in Slots, u \in AwardCallers, b \in BadgeIds : UserBadge_CreateStart(r, u, "ann", b, "p1")
    \/ \E r \in Slots : UserBadge_CreateValidate(r)
    \/ \E r \in Slots : UserBadge_CreateInsert(r)
    \/ \E r \in Slots, u \in AwardCallers, pk \in AwardPks : UserBadge_DestroyStart(r, u, pk)
    \/ \E r \in Slots : UserBadge_DestroyDelete(r)

SpecEarn == InitEarn /\ [][NextEarn]_vars

(* models/rsvp.py, models/party.py, views/rsvp.py : RSVPViewSet *)

\* Party.max_guests: null for a party without a limit
NoLimit == -1

MaxGuests == 2

max_guests(p) == IF p = "p1" THEN MaxGuests ELSE NoLimit

STATUS_CHOICES == {"yes", "no", "maybe"}

RsvpRow(id, p, u, st) == [id |-> id, party |-> p, user |-> u, status |-> st]

\* unique_together = ('party', 'user')
RsvpUnique(rows, p, u) == ~ \E x \in rows : x.party = p /\ x.user = u

attending_count_yes(rows, p) == Cardinality({x \in rows : x.party = p /\ x.status = "yes"})

\* Party.attending_count: self.rsvps.filter(status='attending').count()
attending_count(rows, p) == Cardinality({x \in rows : x.party = p /\ x.status = "attending"})

\* rows with the status of the row id replaced: UPDATE ... WHERE id = pk
WithStatus(rows, id, st) == {IF x.id = id THEN [x EXCEPT !.status = st] ELSE x : x \in rows}

\* create up to the existing-RSVP check: the party id, the party, the RSVP of
\* this user for the party; 'party.max_guests and ...' skips the count for a
\* party without a limit
RSVP_CreateStart(r, u, p, st) ==
    /\ Accept(r)
    /\ UNCHANGED <<scores, awards, badges, questions, rsvps, nextId, hist>>
    /\ LET req == [NewReq("rsvp_create", u) EXCEPT !.party = p, !.rsvp_status = st] IN
         IF p = MissingParty THEN Return(r, req, "400")
         ELSE IF p = NoParty THEN Return(r, req, "404")
         ELSE IF \E x \in rsvps : x.party = p /\ x.user = u THEN Return(r, req, "400")
         ELSE IF max_guests(p) = NoLimit \/ max_guests(p) = 0
         THEN Continue(r, [req EXCEPT !.pc = "insert"])
         ELSE Continue(r, [req EXCEPT !.pc = "capacity"])

\* create: party.attending_count >= party.max_guests
RSVP_CreateCapacity(r) ==
    /\ reqs[r].op = "rsvp_create"
    /\ reqs[r].pc = "capacity"
    /\ IF attending_count(rsvps, reqs[r].party) >= max_guests(reqs[r].party)
       THEN Return(r, reqs[r], "400")
       ELSE Continue(r, [reqs[r] EXCEPT !.pc = "insert"])
    /\ UNCHANGED <<scores, awards, badges, questions, rsvps, nextId, budget, hist>>

\* create: serializer.is_valid() (status is a choice field), then
\* serializer.save(user=request.user, party=party)
RSVP_CreateInsert(r) ==
    /\ reqs[r].op = "rsvp_create"
    /\ reqs[r].pc = "insert"
    /\ LET u  == reqs[r].caller
           p  == reqs[r].party
           st == reqs[r].rsvp_status IN
         IF st \notin STATUS_CHOICES
         THEN Return(r, reqs[r], "400") /\ UNCHANGED <<rsvps, nextId>>
         ELSE IF RsvpUnique(rsvps, p, u)
         THEN /\ rsvps' = rsvps \cup {RsvpRow(nextId, p, u, st)}
              /\ nextId' = nextId + 1
              /\ Return(r, [reqs[r] EXCEPT !.pk = nextId, !.created = TRUE, !.wrote = TRUE], "ok")
         ELSE Return(r, reqs[r], "500") /\ UNCHANGED <<rsvps, nextId>>
    /\ UNCHANGED <<scores, awards, badges, questions, budget, hist>>

\* update: get_object and the owner check
RSVP_UpdateStart(r, u, pk, st) ==
    /\ Accept(r)
    /\ UNCHANGED <<scores, awards, badges, questions, rsvps, nextId, hist>>
    /\ LET req   == [NewReq("rsvp_update", u) EXCEPT !.pk = pk, !.rsvp_status = st]
           found == {x \in rsvps : x.id = pk} IN
         IF found = {} THEN Return(r, req, "404")
         ELSE LET rsvp == CHOOSE x \in found : TRUE IN
              IF rsvp.user # u THEN Return(r, [req EXCEPT !.party = rsvp.party], "403")
              ELSE Continue(r, [req EXCEPT !.pc = "save", !.party = rsvp.party, !.pk_exists = TRUE])

\* super().update: RSVPCreateUpdateSerializer validates the status and saves
RSVP_UpdateSave(r) ==
    /\ reqs[r].op = "rsvp_update"
    /\ reqs[r].pc = "save"
    /\ IF reqs[r].rsvp_status \notin STATUS_CHOICES
       THEN Return(r, reqs[r], "400") /\ UNCHANGED rsvps
       ELSE /\ rsvps' = WithStatus(rsvps, reqs[r].pk, reqs[r].rsvp_status)
            /\ Return(r, [reqs[r] EXCEPT !.wrote = TRUE], "ok")
    /\ UNCHANGED <<scores, awards, badges, questions, nextId, budget, hist>>

\* quick_rsvp up to the first part of update_or_create: the party id, the
\* party, and the row of (party, user) locked and updated when there is one;
\* the status is stored as it came
RSVP_QuickStart(r, u, p, st) ==
    /\ Accept(r)
    /\ UNCHANGED <<scores, awards, badges, questions, nextId, hist>>
    /\ LET req   == [NewReq("quick_rsvp", u) EXCEPT !.party = p, !.rsvp_status = st]
           found == {x \in rsvps : x.party = p /\ x.user = u} IN
         IF p = MissingParty THEN Return(r, req, "400") /\ UNCHANGED rsvps
         ELSE IF p = NoParty THEN Return(r, req, "404") /\ UNCHANGED rsvps
         ELSE IF found # {}
         THEN /\ rsvps' = WithStatus(rsvps, (CHOOSE x \in found : TRUE).id, st)
              /\ Return(r, [req EXCEPT !.wrote = TRUE], "ok")
         ELSE Continue(r, [req EXCEPT !.pc = "create"]) /\ UNCHANGED rsvps

\* update_or_create, the create: INSERT; on an IntegrityError the row that
\* won is read and updated instead
RSVP_QuickCreate(r) ==
    /\ reqs[r].op = "quick_rsvp"
    /\ reqs[r].pc = "create"
    /\ LET u  == reqs[r].caller
           p  == reqs[r].party
           st == reqs[r].rsvp_status IN
         IF RsvpUnique(rsvps, p, u)
         THEN /\ rsvps' = rsvps \cup {RsvpRow(nextId, p, u, st)}
              /\ nextId' = nextId + 1
              /\ Return(r, [reqs[r] EXCEPT !.pk = nextId, !.created = TRUE, !.wrote = TRUE], "ok")
         ELSE /\ rsvps' = WithStatus(rsvps, (CHOOSE x \in rsvps : x.party = p /\ x.user = u).id, st)
              /\ UNCHANGED nextId
              /\ Return(r, [reqs[r] EXCEPT !.wrote = TRUE], "ok")
    /\ UNCHANGED <<scores, awards, badges, questions, budget, hist>>

(* RSVPs of three users to a party with a guest limit *)

RsvpPks == {10, 11}

InitRsvp == InitWith({{}}, MaxRequests)

NextRsvp ==
    \/ \E r \in Slots, u \in Users, p \in {"p1", "p2", NoParty, MissingParty},
          st \in {"yes", "no", "attending"} : RSVP_CreateStart(r, u, p, st)
    \/ \E r \in Slots : RSVP_CreateCapacity(r)
    \/ \E r \in Slots : RSVP_CreateInsert(r)
    \/ \E r \in Slots, u \in Users, pk \in RsvpPks, st \in {"yes", "no"} : RSVP_UpdateStart(r, u, pk, st)
    \/ \E r \in Slots : RSVP_UpdateSave(r)
    \/ \E r \in Slots, u \in Users, p \in {"p1", NoParty, MissingParty}, st \in {"yes", "attending"} :
          RSVP_QuickStart(r, u, p, st)
    \/ \E r \in Slots : RSVP_QuickCreate(r)

SpecRsvp == InitRsvp /\ [][NextRsvp]_vars

(* One user's score in one party: every way to create it and to change it *)

ScorePks    == {1, 10}
ScoreBodies == { [field |-> "points_to_add", kind |-> "int", val |-> -5],
                 [field |-> "total_points", kind |-> "int", val |-> 150] }

InitScore == InitWith({ {}, {ScoreRow(1, "ann", "p1", 0, 1)} }, MaxRequests)

NextScore ==
    \/ \E r \in Slots, t \in {0, 150} : GS_CreateInsert(r, "ann", "p1", t)
    \/ \E r \in Slots : GS_SaveLevel(r)
    \/ \E r \in Slots, pk \in ScorePks : GS_UpdateStart(r, "ann", pk, 150)
    \/ \E r \in Slots : GS_UpdateWrite(r)
    \/ \E r \in Slots, pk \in ScorePks : GS_AddPointsStart(r, "ann", pk, [kind |-> "int", val |-> 10])
    \/ \E r \in Slots : GS_AddPointsSave(r)
    \/ \E r \in Slots : SubmitStart(r, "ann", "p1", <<[question_id |-> 1, answer |-> 1]>>)
    \/ \E r \in Slots : SubmitCreate(r)
    \/ \E r \in Slots : SubmitSave(r)
    \/ \E r \in Slots, t \in {0, -5} : Game_CreateStart(r, "ann", "p1", t)
    \/ \E r \in Slots : Game_CreateInsert(r)
    \/ \E r \in Slots : Game_CreateSave(r)
    \/ \E r \in Slots, pk \in ScorePks, body \in ScoreBodies : Game_UpdateStart(r, "ann", pk, body)
    \/ \E r \in Slots : Game_UpdateWrite(r)
    \/ \E r \in Slots : Game_Save(r)
    \/ \E r \in Slots : Game_BadgeQuery(r)
    \/ \E r \in Slots, b \in BadgeIds : Game_BadgeGet(r, b)
    \/ \E r \in Slots : Game_BadgeCreate(r)

SpecScore == InitScore /\ [][NextScore]_vars

----------------------------------------------------------------------------
(* Properties *)

AddOps == {"gs_add_points", "game_add_points"}

Quiescent == \A r \in Slots : Idle(r)

\* level l is the level of total t: t lies in the l-th block of 100 points
LevelMatches(t, l) == 100 * (l - 1) <= t /\ t < 100 * l

\* the caller passes the lookup and the permission check of add_points
Permitted(q) ==
    /\ q.pk_exists
    /\ IF q.op = "gs_add_points"
       THEN q.target_user = q.caller \/ is_staff(q.caller)
       ELSE host(q.target_party) = q.caller

\* a request returns in this step
Returns == resp'.seq # resp.seq

\* C1: whenever no request is between its statements, every GameScore row has
\* level = floor(total_points / 100) + 1.
C1_LevelFollowsTotal ==
    Quiescent => \A s \in scores : LevelMatches(s.total_points, s.level)

\* C2: when all requests have returned, a row that was only created and added to
\* holds its initial total plus the sum of the amounts the add_points and trivia
\* submit calls added (no lost update).
C2_NoLostUpdate ==
    Quiescent =>
      \A s \in scores :
        (s.id \in DOMAIN hist.acct /\ hist.acct[s.id].adds_only)
          => s.total_points = hist.acct[s.id].base + hist.acct[s.id].added

\* C7: an add_points call with a zero or negative amount writes nothing, the
\* step in which it returns leaves the GameScore table as it is, and a caller
\* that passes lookup and permission check gets the validation error.
C7_NonPositiveRejected ==
    [][ (Returns /\ resp'.op \in AddOps /\ resp'.is_int /\ resp'.amount <= 0)
          => /\ scores' = scores
             /\ ~ resp'.wrote
             /\ resp'.status \in {"400", "403", "404"}
             /\ Permitted(resp') => resp'.status = "400" ]_vars

C7_Witness ==
    /\ resp.op = "gs_add_points" /\ resp.is_int /\ resp.amount <= 0
    /\ Permitted(resp) /\ resp.status = "400"
    /\ resp.target_user = "ann" /\ ById(scores, resp.pk).total_points = 90

\* C8 as stated: add_points with a positive amount succeeds also when no
\* GameScore row exists for the call.
C8_SucceedsWithoutRow ==
    (resp.op \in AddOps /\ resp.is_int /\ resp.amount > 0 /\ ~ resp.pk_exists)
      => resp.status = "ok"

\* C8 amended: the save of an add_points call stores the total the call read
\* plus the amount, with the level of that total; a permitted call with a positive
\* amount on an existing row returns ok with that total and level; a call on a pk
\* without a row returns 404 and the step leaves the table as it is.
C8_AddsToExistingRow ==
    [][ /\ \A r \in Slots :
             (reqs[r].op \in AddOps /\ reqs[r].pc = "save" /\ reqs'[r] # reqs[r])
               => LET row == ById(scores', reqs[r].score.id) IN
                    /\ row.total_points = reqs[r].read_total + reqs[r].amount
                    /\ LevelMatches(row.total_points, row.level)
        /\ (Returns /\ resp'.op \in AddOps /\ resp'.is_int /\ resp'.amount > 0)
             => IF Permitted(resp')
                THEN /\ resp'.status = "ok"
                     /\ resp'.resp_total = resp'.read_total + resp'.amount
                     /\ LevelMatches(resp'.resp_total, resp'.resp_level)
                ELSE /\ resp'.status \in {"403", "404"}
                     /\ ~ resp'.pk_exists => resp'.status = "404"
                     /\ scores' = scores ]_vars

C8_Witness ==
    /\ resp.op = "gs_add_points" /\ resp.status = "ok"
    /\ resp.read_total = 90 /\ resp.amount = 10
    /\ resp.resp_total = 100 /\ resp.resp_level = 2
    /\ ById(scores, resp.pk).total_points = 100

\* C9: in every state, also between the statements of a request, every stored
\* GameScore row has level = floor(total_points / 100) + 1.
C9_NoStaleLevelStored ==
    \A s \in scores : LevelMatches(s.total_points, s.level)

\* C3: no two UserBadge rows carry the same (user, badge, party).
C3_OneAwardPerTriple ==
    \A a1 \in awards, a2 \in awards :
        (a1.user = a2.user /\ a1.badge = a2.badge /\ a1.party = a2.party) => a1.id = a2.id

\* an auto_award is about to insert an award whose triple is already there
C3_Witness ==
    \E r \in Slots :
        /\ reqs[r].op = "auto_award" /\ reqs[r].pc = "insert"
        /\ \E b \in reqs[r].todo : award_exists(awards, reqs[r].caller, b, reqs[r].party)

\* C4: an auto_award call never ends in the unhandled IntegrityError of a
\* colliding insert.
C4_CollisionAbsorbed ==
    resp.op = "auto_award" => resp.status # "500"

\* C5: an auto_award call that starts after an earlier call for the same (user,
\* party) has returned, with the pair's points and the badge catalog unchanged
\* since that call started, creates no UserBadge row and returns normally.
C5_SecondCallCreatesNothing ==
    (resp.op = "auto_award" /\ resp.after_settled /\ resp.clean)
      => resp.new_badges = {} /\ resp.status \in {"ok", "400"}

C5_Witness ==
    /\ resp.op = "auto_award" /\ resp.after_settled /\ resp.clean /\ resp.status = "ok"
    /\ resp.seen_earned = {"b0", "b40"}
    /\ resp.awards_after = {"b0", "b40"}

\* the badges a query saw as active with a threshold of at most t
SeenEligible(q, t) == {b \in BadgeIds : b \in q.seen_active /\ q.seen_required[b] <= t}

\* C6: an auto_award call that returns normally has created exactly the active
\* badges with points_required <= T that the pair did not hold, and the pair
\* then holds every such badge; the badge check after add_points / points_to_add
\* creates only such badges and leaves the pair holding all of them.
C6_AwardsExactlyEligible ==
    /\ (resp.op = "auto_award" /\ resp.status = "ok")
         => /\ resp.new_badges = SeenEligible(resp, resp.read_total) \ resp.seen_earned
            /\ (resp.seen_earned \cup SeenEligible(resp, resp.read_total)) \subseteq resp.awards_after
    /\ (resp.op \in {"game_add_points", "game_update"} /\ resp.status = "ok")
         => /\ resp.new_badges \subseteq SeenEligible(resp, resp.resp_total) \ resp.seen_earned
            /\ SeenEligible(resp, resp.resp_total) \subseteq resp.awards_after

\* a 0-point score gets the 0-point badge, not the 40-point one, not the inactive one
C6_Witness ==
    /\ resp.op = "auto_award" /\ resp.status = "ok" /\ resp.read_total = 40
    /\ resp.new_badges = {"b0", "b40"} /\ resp.seen_required["b40"] = 40
    /\ "b10" \notin resp.seen_active /\ resp.seen_required["b10"] = 10

\* users with a score in party p whose total is strictly greater than t
UsersAbove(p, t) ==
    {u \in Users : \E s \in scores : s.user = u /\ s.party = p /\ s.total_points > t}

Scenario == {ScoreRow(1, "ann", "p1", 100, 2), ScoreRow(2, "bob", "p1", 100, 2),
             ScoreRow(3, "sue", "p1", 50, 1)}

\* C10: the rank returned for a score is the number of users with a strictly
\* greater total in the same party, plus one; totals 100, 100, 50 give 1, 1, 3.
C10_RankIsStrictlyGreaterPlusOne ==
    (resp.op \in {"gs_ranking", "game_retrieve"} /\ resp.status = "ok")
      => /\ resp.resp_rank = Cardinality(UsersAbove(resp.party, resp.resp_total)) + 1
         /\ Scenario \subseteq scores
              => resp.resp_rank = (IF resp.pk = 3 THEN 3 ELSE IF resp.pk \in {1, 2} THEN 1
                                   ELSE resp.resp_rank)

\* the 50-point user of the scenario, with a 100-point score in the other party
C10_Witness ==
    /\ Scenario \subseteq scores /\ ScoreRow(4, "ann", "p2", 100, 2) \in scores
    /\ resp.op = "game_retrieve" /\ resp.status = "ok" /\ resp.pk = 3 /\ resp.resp_rank = 3

----------------------------------------------------------------------------
(* Trivia submissions *)

\* question q is active and global or scoped to party p
Visible(q, p) ==
    /\ q \in DOMAIN questions
    /\ questions[q].is_active
    /\ questions[q].party \in {p, "global"}

\* the answers of a request whose question is visible to the request's party
Considered(q) == SelectSeq(q.answers, LAMBDA a : Visible(a.question_id, q.party))

RECURSIVE SumPoints(_)
SumPoints(results) ==
    IF results = <<>> THEN 0 ELSE Head(results).points_earned + SumPoints(Tail(results))

SubmitDone(q) == q.op = "submit" /\ q.status = "ok"

\* C11: in the response of a submission, the result of every considered answer
\* is marked correct exactly when the selected index equals the stored
\* correct_answer, a correct answer earns the question's points and a wrong one 0;
\* points_earned is the sum over the results and correct_answers the number of
\* results marked correct.
C11_MarkedCorrectIffEqual ==
    SubmitDone(resp) =>
      LET res == resp.question_results
          ans == Considered(resp) IN
        /\ Len(res) = Len(ans)
        /\ \A i \in 1..Len(res) :
              /\ res[i].question_id = ans[i].question_id
              /\ res[i].is_correct = (ans[i].answer = questions[ans[i].question_id].correct_answer)
              /\ res[i].points_earned = (IF res[i].is_correct
                                         THEN questions[ans[i].question_id].points ELSE 0)
        /\ resp.points_earned = SumPoints(res)
        /\ resp.correct_answers = Cardinality({i \in 1..Len(res) : res[i].is_correct})

\* question 1 (correct_answer 1, 20 points) answered with 1 and question 5
\* answered with a wrong index, in one submission
C11_Witness ==
    /\ SubmitDone(resp) /\ Len(resp.question_results) = 3
    /\ resp.question_results[1] = [question_id |-> 1, your_answer |-> 1, correct_answer |-> 1,
                                    is_correct |-> TRUE, points_earned |-> 20]
    /\ resp.question_results[3].is_correct = FALSE
    /\ resp.question_results[3].points_earned = 0
    /\ resp.points_earned = 45 /\ resp.correct_answers = 2

\* C12: a submission with a party and a non-empty list of answer objects returns
\* normally whatever question ids it names; only the considered answers count:
\* total_questions and the accuracy denominator are their number, points and
\* correct count are those of the considered answers alone, and accuracy is 0
\* when none is considered.
C12_UnknownQuestionsSkipped ==
    (/\ resp.op = "submit" /\ resp.party \in Parties /\ resp.answers # <<>>
     /\ \A i \in 1..Len(resp.answers) : resp.answers[i] # NotADict)
      => LET n == Len(Considered(resp))
             c == resp.correct_answers IN
           /\ resp.status = "ok"
           /\ resp.total_questions = n
           /\ Len(resp.question_results) = n
           /\ \A i \in 1..n : Visible(resp.question_results[i].question_id, resp.party)
           /\ resp.points_earned = SumPoints(resp.question_results)
           /\ c <= n
           /\ n = 0 => (resp.accuracy = 0 /\ resp.points_earned = 0 /\ c = 0)
           /\ n > 0 => /\ 2 * (resp.accuracy * n - 1000 * c) <= n
                        /\ 2 * (1000 * c - resp.accuracy * n) <= n

\* a submission naming a question of another party, an inactive question and an
\* unknown id only
C12_Witness ==
    /\ SubmitDone(resp) /\ resp.party = "p1" /\ Len(resp.answers) = 3
    /\ resp.total_questions = 0 /\ resp.accuracy = 0 /\ resp.points_earned = 0
    /\ resp.answers[1].question_id = 3

\* the slot whose request takes a step without returning
Moves(r) == reqs[r].op = "submit" /\ reqs'[r].op = "submit" /\ reqs'[r] # reqs[r]

\* C13: the step in which a submission with points_earned > 0 returns writes the
\* row of (user, party) once, with the total the call read plus points_earned,
\* and touches no other row; no earlier step of a submission changes the total
\* of a row (the creation by get_or_create stores total 0).
C13_OneMutationWithSum ==
    [][ /\ (Returns /\ SubmitDone(resp') /\ resp'.points_earned > 0)
            => LET row == FirstScore(scores', resp'.caller, resp'.party) IN
                 /\ row.total_points = resp'.read_total + resp'.points_earned
                 /\ row.id = resp'.score.id
                 /\ {t \in scores' : t.id # row.id} = {t \in scores : t.id # row.id}
        /\ \A r \in Slots : Moves(r) =>
              \A k \in Pairs : \/ TotalOf(scores', k) = TotalOf(scores, k)
                                \/ (TotalOf(scores, k) = -1 /\ TotalOf(scores', k) = 0) ]_vars

\* the user without a score who earns 20 + 25 points, and a submission that adds
\* to a stored total
C13_Witness ==
    /\ SubmitDone(resp) /\ resp.points_earned = 45 /\ resp.read_total = 0 /\ resp.created
    /\ FirstScore(scores, resp.caller, resp.party).total_points = 45

\* C14: a submission without a correct answer has created no GameScore row: a
\* user without a row for the party has none afterwards.
C14_AllWrongCreatesNothing ==
    (SubmitDone(resp) /\ resp.points_earned = 0) => ~ resp.created

\* C15: when a submission lifts the total of (user, party) from below the
\* points_required of an active badge to at least that value, the UserBadge row
\* of (user, badge, party) exists when the submission has returned.
C15_SubmitAwardsBadge ==
    SubmitDone(resp) =>
      \A b \in BadgeIds :
        (/\ badges[b].is_active
         /\ resp.read_total < badges[b].points_required
         /\ badges[b].points_required <= resp.resp_total)
          => award_exists(awards, resp.caller, b, resp.party)

----------------------------------------------------------------------------
(* Badge evaluation without a score, and operations that end in an error *)

\* C16: an auto_award call for an existing party by a user without a GameScore
\* row for it returns normally, and the user then holds every active badge
\* with points_required = 0.
C16_NoScoreTakenAsZero ==
    (resp.op = "auto_award" /\ resp.party \in Parties /\ resp.score = NoScore)
      => /\ resp.status = "ok"
         /\ \A b \in BadgeIds :
               (b \in resp.seen_active /\ resp.seen_required[b] = 0)
                 => award_exists(awards, resp.caller, b, resp.party)

\* C18: a request that returns an error has created no GameScore row and no
\* UserBadge row and has written no GameScore row.
C18_ErrorLeavesNoRecord ==
    resp.status \in {"400", "403", "404", "500"}
      => (resp.new_badges = {} /\ ~ resp.created /\ ~ resp.wrote)

----------------------------------------------------------------------------
(* Listing of available and upcoming badges, awards for other users *)

\* the points of (u, p) in the table, 0 without a row
CurrentPoints(u, p) == IF TotalOf(scores, <<u, p>>) = -1 THEN 0 ELSE TotalOf(scores, <<u, p>>)

\* slot r holds or accepts an available_for_user request that takes this step
Lists(r) ==
    /\ reqs'[r] # reqs[r]
    /\ \/ reqs[r].op = "available_for_user"
       \/ reqs'[r].op = "available_for_user"
       \/ (Idle(r) /\ Returns /\ resp'.op = "available_for_user")

\* C17: an available_for_user call that returns with the points of the pair, its
\* awards and the catalog as they were when the call read them lists as available
\* exactly the active badges with points_required <= T the pair does not hold and
\* as upcoming exactly the active ones with T < points_required <= T + 50 it does
\* not hold, T being the pair's points (0 without a row); the two lists are
\* disjoint; and no step of the call changes a GameScore, Badge or UserBadge row.
C17_AvailableAndUpcoming ==
    [][ /\ (/\ Returns /\ resp'.op = "available_for_user" /\ resp'.status = "ok"
            /\ resp'.clean /\ resp'.seen_earned = resp'.awards_after)
            => LET T    == CurrentPoints(resp'.caller, resp'.party)
                   held == earned_badge_ids(awards, resp'.caller, resp'.party) IN
                 /\ resp'.read_total = T
                 /\ resp'.available = {b \in BadgeIds : /\ badges[b].is_active
                                                         /\ badges[b].points_required <= T
                                                         /\ b \notin held}
                 /\ resp'.upcoming = {b \in BadgeIds : /\ badges[b].is_active
                                                        /\ T < badges[b].points_required
                                                        /\ badges[b].points_required <= T + 50
                                                        /\ b \notin held}
                 /\ resp'.available \cap resp'.upcoming = {}
        /\ \A r \in Slots : Lists(r) => UNCHANGED <<scores, awards, badges>> ]_vars

\* a user without a score (T = 0): the badge with threshold 0 is available and
\* the badge whose threshold was set to T + 50 is upcoming
C17_Witness ==
    /\ resp.op = "available_for_user" /\ resp.status = "ok" /\ resp.clean
    /\ resp.score = NoScore /\ resp.read_total = 0
    /\ badges["b40"].points_required = 50
    /\ resp.available = {"b0"} /\ resp.upcoming = {"b40"}

\* the triples (user, badge, party) of the award table
Triples(rows) == {<<a.user, a.badge, a.party>> : a \in rows}

\* slot r holds the request that takes this step
Acts(r) == reqs[r].op # "idle" /\ reqs'[r] # reqs[r]

\* C19: no step of a request whose caller is not staff brings an award of
\* another user into the table, and a request of such a caller that names
\* another user returns 403.
C19_NoAwardForOthers ==
    [][ /\ \A r \in Slots :
              (Acts(r) /\ reqs[r].caller \notin Staff)
                => \A t \in Triples(awards') \ Triples(awards) : t[1] = reqs[r].caller
        /\ (/\ Returns /\ resp'.op \in {"userbadge_create", "userbadge_update"}
            /\ resp'.caller \notin Staff /\ resp'.target_user # resp'.caller)
              => (resp'.status \in {"403", "404"} /\ awards' = awards) ]_vars

----------------------------------------------------------------------------
(* Stored trivia questions *)

NonEmptyOptions(q) == Cardinality({i \in 1..4 : q.options[i] # ""})

\* C20: every stored trivia question has at least two non-empty options and
\* 0 <= correct_answer < number of non-empty options.
C20_QuestionWellFormed ==
    \A q \in DOMAIN questions :
        /\ NonEmptyOptions(questions[q]) >= 2
        /\ 0 <= questions[q].correct_answer
        /\ questions[q].correct_answer < NonEmptyOptions(questions[q])


(* C21: an award, once it exists, stays in place and unchanged: no step of any
   request removes an award row or alters its user, badge or party (no user,
   badge or party is ever deleted here, so no cascade can account for a loss) *)
C21_AwardStays == [][\A a \in awards : a \in awards']_vars


\* the selected index of an answer lies outside the options its question declares
OutOfRange(a) ==
    \/ a.answer < 0
    \/ a.answer >= NonEmptyOptions(questions[a.question_id])

(* C22: a submission with an answer to a visible question whose selected index
   is negative or not below the number of options is rejected with a validation
   error and writes no Score *)
C22_OutOfRangeRejected ==
    ( /\ resp.op = "submit"
      /\ resp.party \in Parties
      /\ \E i \in DOMAIN resp.answers :
            /\ resp.answers[i] # NotADict
            /\ Visible(resp.answers[i].question_id, resp.party)
            /\ OutOfRange(resp.answers[i]) )
    => (resp.status = "400" /\ ~ resp.wrote /\ ~ resp.created)


\* the sum of the points of the questions visible to party p
RECURSIVE PointsOf(_)
PointsOf(qids) ==
    IF qids = {} THEN 0
    ELSE LET q == CHOOSE x \in qids : TRUE IN questions[q].points + PointsOf(qids \ {q})

VisiblePoints(p) == PointsOf({q \in DOMAIN questions : Visible(q, p)})

(* C26: the points earned by one submission never exceed the sum of the points
   of the distinct questions visible to its party, however often the answer
   list names a question *)
C26_EachQuestionOnce == SubmitDone(resp) => resp.points_earned <= VisiblePoints(resp.party)


(* C23: in every reachable state there is at most one Score record for each
   (user, party) pair, whatever requests run concurrently *)
C23_OneScorePerPair ==
    \A s \in scores, t \in scores : (s.user = t.user /\ s.party = t.party) => s.id = t.id

\* a score creation that found no record, lost the race against a concurrent
\* first-time writer and returned without a second record coming into being
C23_Witness ==
    /\ resp.op = "game_create"
    /\ resp.status = "500"
    /\ resp.amount >= 0
    /\ Cardinality(ScoreOf(scores, resp.caller, resp.party)) = 1
    /\ \E s \in ScoreOf(scores, resp.caller, resp.party) : s.id >= 10


FrameOps == {"gs_add_points", "submit", "auto_award"}

\* the (user, party) pair a request works for: the pair of the addressed record
\* for add_points, the caller and the named party for submit and auto_award
PairOf(q) ==
    IF q.op = "gs_add_points"
    THEN <<q.target_user, q.target_party>>
    ELSE <<q.caller, q.party>>

\* the request that takes the step in slot r: the one in the slot before the
\* step, or the one the step accepts
Actor(r) ==
    IF reqs[r].op # "idle" THEN reqs[r]
    ELSE IF reqs'[r].op # "idle" THEN reqs'[r] ELSE resp'

\* the rows of other pairs are the same before and after the step
OthersUnchanged(k) ==
    /\ {s \in scores : <<s.user, s.party>> # k} = {s \in scores' : <<s.user, s.party>> # k}
    /\ {a \in awards : <<a.user, a.party>> # k} = {a \in awards' : <<a.user, a.party>> # k}

(* C24: every step of add_points, trivia submit and auto_award for the pair
   (U, P) leaves every Score and award record of another user or another party
   as it was *)
C24_OtherPairsUntouched ==
    [][ /\ \A r \in Slots :
              (reqs'[r] # reqs[r] /\ Actor(r).op \in FrameOps) => OthersUnchanged(PairOf(Actor(r)))
        /\ (reqs' = reqs /\ Returns /\ resp'.op \in FrameOps) => OthersUnchanged(PairOf(resp'))
      ]_vars

\* ann has earned points and an award in p1 while the records of bob in p1 and
\* of ann in p2 are the initial ones
C24_Witness ==
    /\ resp.op = "auto_award"
    /\ resp.caller = "ann"
    /\ resp.party = "p1"
    /\ resp.new_badges # {}
    /\ \E s \in scores : s.id = 1 /\ s.total_points > 90
    /\ {s \in scores : s.id # 1} = {s \in FrameScores : s.id # 1}
    /\ FrameAwards \subseteq awards


(* C25: every stored Score has total_points >= 0 and level >= 1, after any
   sequence of score creations, updates (points_to_add included), add_points
   calls and trivia submissions *)
C25_TotalAndLevelInRange == \A s \in scores : s.total_points >= 0 /\ s.level >= 1

\* an update with a negative points_to_add that would have taken the total of a
\* record below zero has returned and the record still holds a total of 0
C25_Witness ==
    /\ resp.op = "game_update"
    /\ resp.amount < 0
    /\ resp.pk_exists
    /\ resp.read_total + resp.amount < 0
    /\ resp.status = "500"
    /\ \E s \in scores : s.id = resp.pk /\ s.total_points = 0


(* C27: every award row that a step of a non-staff caller's request creates,
   by direct creation or by auto_award, is for a badge that is active and whose
   points_required is at most the user's total for the party at that moment *)
C27_AwardOnlyWhenEligible ==
    [][\A r \in Slots :
          (Acts(r) /\ reqs[r].op \in {"userbadge_create", "auto_award"} /\ reqs[r].caller \notin Staff)
          => \A a \in awards' \ awards :
                /\ badges[a.badge].is_active
                /\ badges[a.badge].points_required <= CurrentPoints(a.user, a.party)]_vars


(* C28: add_points called on an existing Score record by a caller who is
   neither its owner nor staff returns a permission error and changes nothing *)
C28_OthersGetPermissionError ==
    ( /\ resp.op = "gs_add_points"
      /\ resp.pk_exists
      /\ resp.target_user # resp.caller
      /\ resp.caller \notin Staff )
    => (resp.status = "403" /\ ~ resp.wrote)


(* C29: every rank number in a party listing (top_players of party_stats, the
   party leaderboard) equals the number of users of the party with a strictly
   greater total, plus one *)
C29_ListedRankIsGetRank ==
    (resp.op \in {"gs_party_stats", "game_leaderboard"} /\ resp.status = "ok")
      => \A i \in DOMAIN resp.listing :
            resp.listing[i].rank =
               Cardinality(UsersAbove(resp.party, resp.listing[i].total_points)) + 1


(* C30: once the number of 'yes' RSVPs of a party with max_guests set has
   reached max_guests, the capacity check of an RSVP create rejects the request
   with a validation error, and no step of a create adds a row to the party *)
C30_CreateRejectedAtCapacity ==
    [][\A r \in Slots :
          ( /\ Acts(r)
            /\ reqs[r].op = "rsvp_create"
            /\ max_guests(reqs[r].party) # NoLimit
            /\ attending_count_yes(rsvps, reqs[r].party) >= max_guests(reqs[r].party) )
          => /\ rsvps' = rsvps
             /\ reqs[r].pc = "capacity" => (Returns /\ resp'.status = "400")]_vars

====
